---------------------------- MODULE Spec2Model ----------------------------
(***************************************************************************)
(* A model of the conversational query-understanding engine of Product 3   *)
(* (chatbot_engine.py: RentalPropertyChatbot) and of the Flask endpoint    *)
(* that serves it (api_server.py).  Query texts are strings; the regular   *)
(* expressions of the pattern catalog are terms that are matched           *)
(* character by character, the way re.search matches them.                 *)
(***************************************************************************)
EXTENDS Integers, Sequences, FiniteSets, TLC

None == "None"

(***************************************************************************)
(* Regular expressions.  A term is a tuple whose first component names the *)
(* construct.  Inf stands for an unbounded repetition count.               *)
(***************************************************************************)
Inf == 0 - 1
Lit(s) == <<"lit", s>>
Set(chars) == <<"set", chars>>
Dot == <<"any">>
Cat(rs) == <<"cat", rs>>
Alt(rs) == <<"alt", rs>>
Rep(r, lo, hi) == <<"rep", r, lo, hi, TRUE>>
Lazy(r, lo, hi) == <<"rep", r, lo, hi, FALSE>>
Grp(r) == <<"grp", r>>
Bol == <<"bol">>
Wb == <<"wb">>
NotAhead(r) == <<"nla", r>>
Star(r) == Rep(r, 0, Inf)
Plus(r) == Rep(r, 1, Inf)
Opt(r) == Rep(r, 0, 1)

Digit == {"0", "1", "2", "3", "4", "5", "6", "7", "8", "9"}
LowerStr == "abcdefghijklmnopqrstuvwxyz"
UpperStr == "ABCDEFGHIJKLMNOPQRSTUVWXYZ"
CharAt(s, i) == SubSeq(s, i, i)
Lower == { CharAt(LowerStr, i) : i \in 1 .. 26 }
Upper == { CharAt(UpperStr, i) : i \in 1 .. 26 }
WordCh == Digit \cup Lower \cup Upper \cup {"_"}
Space == {" "}

IsWordAt(s, i) == i >= 1 /\ i <= Len(s) /\ CharAt(s, i) \in WordCh

(***************************************************************************)
(* Ends(r, s, S): the offsets at which a match of r can end when it starts *)
(* at one of the offsets S of s (offset i lies before character i + 1).    *)
(* Search is the truth value of re.search(r, s).                           *)
(***************************************************************************)
RECURSIVE Ends(_, _, _), CatEnds(_, _, _, _), AltEnds(_, _, _, _)
RECURSIVE Times(_, _, _, _), UpTo(_, _, _, _, _), Closure(_, _, _, _)

Ends(r, s, S) ==
  IF S = {} THEN {}
  ELSE CASE r[1] = "lit" ->
              { i + Len(r[2]) : i \in { j \in S : /\ j + Len(r[2]) <= Len(s)
                                                  /\ SubSeq(s, j + 1, j + Len(r[2])) = r[2] } }
         [] r[1] = "set" -> { i + 1 : i \in { j \in S : j < Len(s) /\ CharAt(s, j + 1) \in r[2] } }
         [] r[1] = "any" -> { i + 1 : i \in { j \in S : j < Len(s) } }
         [] r[1] = "cat" -> CatEnds(r[2], 1, s, S)
         [] r[1] = "alt" -> AltEnds(r[2], 1, s, S)
         [] r[1] = "rep" -> LET M == Times(r[2], r[3], s, S)
                            IN  IF r[4] = Inf THEN Closure(r[2], s, M, M)
                                ELSE UpTo(r[2], r[4] - r[3], s, M, M)
         [] r[1] = "grp" -> Ends(r[2], s, S)
         [] r[1] = "bol" -> S \cap {0}
         [] r[1] = "wb"  -> { i \in S : IsWordAt(s, i) # IsWordAt(s, i + 1) }
         [] r[1] = "nla" -> { i \in S : Ends(r[2], s, {i}) = {} }

CatEnds(rs, k, s, S) ==
  IF k > Len(rs) THEN S ELSE CatEnds(rs, k + 1, s, Ends(rs[k], s, S))
AltEnds(rs, k, s, S) ==
  IF k > Len(rs) THEN {} ELSE Ends(rs[k], s, S) \cup AltEnds(rs, k + 1, s, S)
Times(r, n, s, S) ==
  IF n = 0 THEN S ELSE Times(r, n - 1, s, Ends(r, s, S))
UpTo(r, n, s, Acc, F) ==
  IF n = 0 \/ F = {} THEN Acc
  ELSE LET N == Ends(r, s, F) IN UpTo(r, n - 1, s, Acc \cup N, N)
Closure(r, s, Acc, F) ==
  IF F = {} THEN Acc
  ELSE LET N == Ends(r, s, F) \ Acc IN Closure(r, s, Acc \cup N, N)

Search(r, s) == Ends(r, s, 0 .. Len(s)) # {}

(***************************************************************************)
(* Matches(r, s, m): the matches of r that start where m = <<offset, group *)
(* start, group end>> stands, in the order in which the backtracking       *)
(* matcher of re tries them (greedy repetitions longest first, lazy ones   *)
(* shortest first, alternatives left to right).  Only capture group 1 is   *)
(* recorded.  Find is re.search: the first match at the leftmost offset.   *)
(***************************************************************************)
RECURSIVE Matches(_, _, _), CatMatches(_, _, _, _), Each(_, _, _, _)
RECURSIVE AltMatches(_, _, _, _), RepMatches(_, _, _, _), EachRep(_, _, _, _, _)

Matches(r, s, m) ==
  CASE r[1] = "lit" ->
         IF m[1] + Len(r[2]) <= Len(s) /\ SubSeq(s, m[1] + 1, m[1] + Len(r[2])) = r[2]
         THEN << <<m[1] + Len(r[2]), m[2], m[3]>> >> ELSE << >>
    [] r[1] = "set" ->
         IF m[1] < Len(s) /\ CharAt(s, m[1] + 1) \in r[2]
         THEN << <<m[1] + 1, m[2], m[3]>> >> ELSE << >>
    [] r[1] = "any" -> IF m[1] < Len(s) THEN << <<m[1] + 1, m[2], m[3]>> >> ELSE << >>
    [] r[1] = "cat" -> CatMatches(r[2], 1, s, <<m>>)
    [] r[1] = "alt" -> AltMatches(r[2], 1, s, m)
    [] r[1] = "rep" -> RepMatches(r, s, m, 0)
    [] r[1] = "grp" -> LET R == Matches(r[2], s, m)
                       IN  [k \in 1 .. Len(R) |-> <<R[k][1], m[1], R[k][1]>>]
    [] r[1] = "bol" -> IF m[1] = 0 THEN <<m>> ELSE << >>
    [] r[1] = "wb"  -> IF IsWordAt(s, m[1]) # IsWordAt(s, m[1] + 1) THEN <<m>> ELSE << >>
    [] r[1] = "nla" -> IF Matches(r[2], s, m) = << >> THEN <<m>> ELSE << >>

Each(r, s, ms, k) ==
  IF k > Len(ms) THEN << >> ELSE Matches(r, s, ms[k]) \o Each(r, s, ms, k + 1)
CatMatches(rs, k, s, ms) ==
  IF k > Len(rs) \/ ms = << >> THEN ms ELSE CatMatches(rs, k + 1, s, Each(rs[k], s, ms, 1))
AltMatches(rs, k, s, m) ==
  IF k > Len(rs) THEN << >> ELSE Matches(rs[k], s, m) \o AltMatches(rs, k + 1, s, m)
EachRep(r, s, ms, k, n) ==
  IF k > Len(ms) THEN << >> ELSE RepMatches(r, s, ms[k], n) \o EachRep(r, s, ms, k + 1, n)
RepMatches(r, s, m, n) ==
  LET more == IF r[4] # Inf /\ n >= r[4] THEN << >>
              ELSE EachRep(r, s, Matches(r[2], s, m), 1, n + 1)
      stop == IF n >= r[3] THEN <<m>> ELSE << >>
  IN  IF r[5] THEN more \o stop ELSE stop \o more

RECURSIVE FindFrom(_, _, _)
FindFrom(r, s, i) ==
  IF i > Len(s) THEN [found |-> FALSE, start |-> 0, end |-> 0, g1 |-> ""]
  ELSE LET R == Matches(r, s, <<i, 0, 0>>)
       IN  IF R # << >> THEN [found |-> TRUE, start |-> i, end |-> R[1][1], g1 |-> SubSeq(s, R[1][2] + 1, R[1][3])]
           ELSE FindFrom(r, s, i + 1)
Find(r, s) == FindFrom(r, s, 0)

(***************************************************************************)
(* str.lower(), str.strip() and the `in' test on strings.                  *)
(***************************************************************************)
LowerCh(c) ==
  IF c \in Upper THEN CharAt(LowerStr, CHOOSE i \in 1 .. 26 : CharAt(UpperStr, i) = c) ELSE c
RECURSIVE ToLower(_)
ToLower(s) == IF s = "" THEN "" ELSE LowerCh(Head(s)) \o ToLower(Tail(s))
RECURSIVE Strip(_)
Strip(s) ==
  IF s = "" THEN ""
  ELSE IF CharAt(s, 1) \in Space THEN Strip(Tail(s))
  ELSE IF CharAt(s, Len(s)) \in Space THEN Strip(SubSeq(s, 1, Len(s) - 1))
  ELSE s
Contains(s, sub) ==
  \E i \in 0 .. Len(s) - Len(sub) : SubSeq(s, i + 1, i + Len(sub)) = sub

(***************************************************************************)
(* The pattern catalog: self.intent_patterns and self.follow_up_patterns   *)
(* in the iteration order of the dict.  The dict literal names 'low_gap'   *)
(* twice: the key keeps the place of its first occurrence (after           *)
(* 'gap_analysis') and holds the pattern list of its second.               *)
(***************************************************************************)
intent_patterns == <<
  <<"greeting", <<
      \* ^(hi|hello|hey|greetings|hola|namaste)\b
      Cat(<<Bol, Grp(Alt(<<Lit("hi"), Lit("hello"), Lit("hey"), Lit("greetings"), Lit("hola"), Lit("namaste")>>)), Wb>>),
      \* good\s+(morning|afternoon|evening|day)
      Cat(<<Lit("good"), Plus(Set(Space)), Grp(Alt(<<Lit("morning"), Lit("afternoon"), Lit("evening"), Lit("day")>>))>>),
      \* ^(yo|sup|wassup)\b
      Cat(<<Bol, Grp(Alt(<<Lit("yo"), Lit("sup"), Lit("wassup")>>)), Wb>>)
  >> >>,
  <<"thank_you", <<
      \* (thank|thanks|thx|appreciate)
      Grp(Alt(<<Lit("thank"), Lit("thanks"), Lit("thx"), Lit("appreciate")>>)),
      \* grateful
      Lit("grateful"),
      \* you.*(?:helped|great|awesome|amazing)
      Cat(<<Lit("you"), Star(Dot), Alt(<<Lit("helped"), Lit("great"), Lit("awesome"), Lit("amazing")>>)>>)
  >> >>,
  <<"goodbye", <<
      \* (bye|goodbye|see you|farewell|later)
      Grp(Alt(<<Lit("bye"), Lit("goodbye"), Lit("see you"), Lit("farewell"), Lit("later")>>)),
      \* have.*(?:good|nice).*day
      Cat(<<Lit("have"), Star(Dot), Alt(<<Lit("good"), Lit("nice")>>), Star(Dot), Lit("day")>>),
      \* take care
      Lit("take care")
  >> >>,
  <<"demand_forecast", <<
      \* demand.*(?:in|for|at)\s+(\w+)
      Cat(<<Lit("demand"), Star(Dot), Alt(<<Lit("in"), Lit("for"), Lit("at")>>), Plus(Set(Space)), Grp(Plus(Set(WordCh)))>>),
      \* forecast.*(?:in|for|at)\s+(\w+)
      Cat(<<Lit("forecast"), Star(Dot), Alt(<<Lit("in"), Lit("for"), Lit("at")>>), Plus(Set(Space)), Grp(Plus(Set(WordCh)))>>),
      \* rental.*demand.*(\w+)
      Cat(<<Lit("rental"), Star(Dot), Lit("demand"), Star(Dot), Grp(Plus(Set(WordCh)))>>),
      \* how.*many.*(?:in|at)\s+(\w+)
      Cat(<<Lit("how"), Star(Dot), Lit("many"), Star(Dot), Alt(<<Lit("in"), Lit("at")>>), Plus(Set(Space)), Grp(Plus(Set(WordCh)))>>),
      \* predict.*demand.*(\w+)
      Cat(<<Lit("predict"), Star(Dot), Lit("demand"), Star(Dot), Grp(Plus(Set(WordCh)))>>),
      \* what.*demand.*(\w+)
      Cat(<<Lit("what"), Star(Dot), Lit("demand"), Star(Dot), Grp(Plus(Set(WordCh)))>>),
      \* (\w+).*demand
      Cat(<<Grp(Plus(Set(WordCh))), Star(Dot), Lit("demand")>>),
      \* demand.*(\w+)
      Cat(<<Lit("demand"), Star(Dot), Grp(Plus(Set(WordCh)))>>),
      \* how[\'s]*\s+(?:is|are)?\s*(\w+)\s+(?:doing|performing)
      Cat(<<Lit("how"), Star(Set({"'", "s"})), Plus(Set(Space)), Opt(Alt(<<Lit("is"), Lit("are")>>)), Star(Set(Space)), Grp(Plus(Set(WordCh))), Plus(Set(Space)), Alt(<<Lit("doing"), Lit("performing")>>)>>),
      \* how.*(?:is|are).*(\w+).*(?:doing|market|performing)
      Cat(<<Lit("how"), Star(Dot), Alt(<<Lit("is"), Lit("are")>>), Star(Dot), Grp(Plus(Set(WordCh))), Star(Dot), Alt(<<Lit("doing"), Lit("market"), Lit("performing")>>)>>),
      \* (\w+).*rental.*market
      Cat(<<Grp(Plus(Set(WordCh))), Star(Dot), Lit("rental"), Star(Dot), Lit("market")>>),
      \* tell.*(?:me|us).*(?:about|demand).*(\w+)
      Cat(<<Lit("tell"), Star(Dot), Alt(<<Lit("me"), Lit("us")>>), Star(Dot), Alt(<<Lit("about"), Lit("demand")>>), Star(Dot), Grp(Plus(Set(WordCh)))>>),
      \* know.*demand.*(\w+)
      Cat(<<Lit("know"), Star(Dot), Lit("demand"), Star(Dot), Grp(Plus(Set(WordCh)))>>),
      \* what.*about.*(\w+)
      Cat(<<Lit("what"), Star(Dot), Lit("about"), Star(Dot), Grp(Plus(Set(WordCh)))>>),
      \* (?:and|how).*about.*(\w+)
      Cat(<<Alt(<<Lit("and"), Lit("how")>>), Star(Dot), Lit("about"), Star(Dot), Grp(Plus(Set(WordCh)))>>)
  >> >>,
  <<"gap_analysis", <<
      \* gap.*(?:in|for|at)\s+(\w+)
      Cat(<<Lit("gap"), Star(Dot), Alt(<<Lit("in"), Lit("for"), Lit("at")>>), Plus(Set(Space)), Grp(Plus(Set(WordCh)))>>),
      \* supply.*demand.*(\w+)
      Cat(<<Lit("supply"), Star(Dot), Lit("demand"), Star(Dot), Grp(Plus(Set(WordCh)))>>),
      \* opportunity.*(?:in|at)\s+(\w+)
      Cat(<<Lit("opportunity"), Star(Dot), Alt(<<Lit("in"), Lit("at")>>), Plus(Set(Space)), Grp(Plus(Set(WordCh)))>>),
      \* invest.*(?:in|at)\s+(\w+)
      Cat(<<Lit("invest"), Star(Dot), Alt(<<Lit("in"), Lit("at")>>), Plus(Set(Space)), Grp(Plus(Set(WordCh)))>>),
      \* which.*(?:area|locality).*(\w+)
      Cat(<<Lit("which"), Star(Dot), Alt(<<Lit("area"), Lit("locality")>>), Star(Dot), Grp(Plus(Set(WordCh)))>>),
      \* best.*(?:area|locality).*(\w+)
      Cat(<<Lit("best"), Star(Dot), Alt(<<Lit("area"), Lit("locality")>>), Star(Dot), Grp(Plus(Set(WordCh)))>>),
      \* should.*invest.*(\w+)
      Cat(<<Lit("should"), Star(Dot), Lit("invest"), Star(Dot), Grp(Plus(Set(WordCh)))>>),
      \* (?:is|are).*(\w+).*good.*invest
      Cat(<<Alt(<<Lit("is"), Lit("are")>>), Star(Dot), Grp(Plus(Set(WordCh))), Star(Dot), Lit("good"), Star(Dot), Lit("invest")>>),
      \* (?:where|which).*(?:should|can).*invest.*(\w+)
      Cat(<<Alt(<<Lit("where"), Lit("which")>>), Star(Dot), Alt(<<Lit("should"), Lit("can")>>), Star(Dot), Lit("invest"), Star(Dot), Grp(Plus(Set(WordCh)))>>),
      \* (\w+).*(?:investment|invest).*(?:opportunit|area)
      Cat(<<Grp(Plus(Set(WordCh))), Star(Dot), Alt(<<Lit("investment"), Lit("invest")>>), Star(Dot), Alt(<<Lit("opportunit"), Lit("area")>>)>>),
      \* (?:show|find|get).*(?:opportunit|invest).*(\w+)
      Cat(<<Alt(<<Lit("show"), Lit("find"), Lit("get")>>), Star(Dot), Alt(<<Lit("opportunit"), Lit("invest")>>), Star(Dot), Grp(Plus(Set(WordCh)))>>),
      \* (?:best|top|good).*(?:area|localit|place).*(?:invest|buy).*(\w+)
      Cat(<<Alt(<<Lit("best"), Lit("top"), Lit("good")>>), Star(Dot), Alt(<<Lit("area"), Lit("localit"), Lit("place")>>), Star(Dot), Alt(<<Lit("invest"), Lit("buy")>>), Star(Dot), Grp(Plus(Set(WordCh)))>>),
      \* (\w+).*(?:gap|supply|demand).*analys
      Cat(<<Grp(Plus(Set(WordCh))), Star(Dot), Alt(<<Lit("gap"), Lit("supply"), Lit("demand")>>), Star(Dot), Lit("analys")>>),
      \* (?:what|tell|show).*(?:about|me).*gap.*analys
      Cat(<<Alt(<<Lit("what"), Lit("tell"), Lit("show")>>), Star(Dot), Alt(<<Lit("about"), Lit("me")>>), Star(Dot), Lit("gap"), Star(Dot), Lit("analys")>>),
      \* gap.*analys.*(\w+)
      Cat(<<Lit("gap"), Star(Dot), Lit("analys"), Star(Dot), Grp(Plus(Set(WordCh)))>>),
      \* (?:demand|supply).*gap.*(\w+)
      Cat(<<Alt(<<Lit("demand"), Lit("supply")>>), Star(Dot), Lit("gap"), Star(Dot), Grp(Plus(Set(WordCh)))>>),
      \* analyz.*gap.*(\w+)
      Cat(<<Lit("analyz"), Star(Dot), Lit("gap"), Star(Dot), Grp(Plus(Set(WordCh)))>>),
      \* where.*(?:invest|buy).*(\w+)
      Cat(<<Lit("where"), Star(Dot), Alt(<<Lit("invest"), Lit("buy")>>), Star(Dot), Grp(Plus(Set(WordCh)))>>),
      \* (\w+).*opportunities
      Cat(<<Grp(Plus(Set(WordCh))), Star(Dot), Lit("opportunities")>>),
      \* (\w+).*investment
      Cat(<<Grp(Plus(Set(WordCh))), Star(Dot), Lit("investment")>>),
      \* undersuppl.*(?:area|localit).*(\w+)
      Cat(<<Lit("undersuppl"), Star(Dot), Alt(<<Lit("area"), Lit("localit")>>), Star(Dot), Grp(Plus(Set(WordCh)))>>),
      \* (?:are|any).*undersuppl.*(\w+)
      Cat(<<Alt(<<Lit("are"), Lit("any")>>), Star(Dot), Lit("undersuppl"), Star(Dot), Grp(Plus(Set(WordCh)))>>),
      \* show.*undersuppl.*(\w+)
      Cat(<<Lit("show"), Star(Dot), Lit("undersuppl"), Star(Dot), Grp(Plus(Set(WordCh)))>>),
      \* which.*undersuppl.*(\w+)
      Cat(<<Lit("which"), Star(Dot), Lit("undersuppl"), Star(Dot), Grp(Plus(Set(WordCh)))>>),
      \* high.*demand.*(?:area|localit).*(\w+)
      Cat(<<Lit("high"), Star(Dot), Lit("demand"), Star(Dot), Alt(<<Lit("area"), Lit("localit")>>), Star(Dot), Grp(Plus(Set(WordCh)))>>),
      \* \d+\s*bhk.*(?:in|at|for)\s+(\w+)
      Cat(<<Plus(Set(Digit)), Star(Set(Space)), Lit("bhk"), Star(Dot), Alt(<<Lit("in"), Lit("at"), Lit("for")>>), Plus(Set(Space)), Grp(Plus(Set(WordCh)))>>),
      \* (?:with|having)\s*\d+\s*bhk
      Cat(<<Alt(<<Lit("with"), Lit("having")>>), Star(Set(Space)), Plus(Set(Digit)), Star(Set(Space)), Lit("bhk")>>),
      \* bhk.*\d+.*(\w+)
      Cat(<<Lit("bhk"), Star(Dot), Plus(Set(Digit)), Star(Dot), Grp(Plus(Set(WordCh)))>>),
      \* (?:rent|rental).*\d+.*(\w+)
      Cat(<<Alt(<<Lit("rent"), Lit("rental")>>), Star(Dot), Plus(Set(Digit)), Star(Dot), Grp(Plus(Set(WordCh)))>>),
      \* average.*rent.*\d+
      Cat(<<Lit("average"), Star(Dot), Lit("rent"), Star(Dot), Plus(Set(Digit))>>),
      \* \d+k?\s*(?:rent|rental)
      Cat(<<Plus(Set(Digit)), Opt(Lit("k")), Star(Set(Space)), Alt(<<Lit("rent"), Lit("rental")>>)>>),
      \* (?:area|locality).*\d+
      Cat(<<Alt(<<Lit("area"), Lit("locality")>>), Star(Dot), Plus(Set(Digit))>>)
  >> >>,
  <<"low_gap", <<
      \* low.*gap.*(\w+)
      Cat(<<Lit("low"), Star(Dot), Lit("gap"), Star(Dot), Grp(Plus(Set(WordCh)))>>),
      \* oversuppl.*(\w+)
      Cat(<<Lit("oversuppl"), Star(Dot), Grp(Plus(Set(WordCh)))>>),
      \* (?:which|what).*(?:area|localit).*oversuppl.*(\w+)
      Cat(<<Alt(<<Lit("which"), Lit("what")>>), Star(Dot), Alt(<<Lit("area"), Lit("localit")>>), Star(Dot), Lit("oversuppl"), Star(Dot), Grp(Plus(Set(WordCh)))>>),
      \* (?:which|what).*(?:area|localit).*low.*gap.*(\w+)
      Cat(<<Alt(<<Lit("which"), Lit("what")>>), Star(Dot), Alt(<<Lit("area"), Lit("localit")>>), Star(Dot), Lit("low"), Star(Dot), Lit("gap"), Star(Dot), Grp(Plus(Set(WordCh)))>>),
      \* renter.*market.*(\w+)
      Cat(<<Lit("renter"), Star(Dot), Lit("market"), Star(Dot), Grp(Plus(Set(WordCh)))>>),
      \* buyer.*market.*(\w+)
      Cat(<<Lit("buyer"), Star(Dot), Lit("market"), Star(Dot), Grp(Plus(Set(WordCh)))>>),
      \* (?:show|find).*oversuppl.*(\w+)
      Cat(<<Alt(<<Lit("show"), Lit("find")>>), Star(Dot), Lit("oversuppl"), Star(Dot), Grp(Plus(Set(WordCh)))>>),
      \* (?:any|are there).*oversuppl.*(\w+)
      Cat(<<Alt(<<Lit("any"), Lit("are there")>>), Star(Dot), Lit("oversuppl"), Star(Dot), Grp(Plus(Set(WordCh)))>>)
  >> >>,
  <<"top_cities", <<
      \* (?:top|best|highest).*(?:5|five|10|ten)?.*cit
      Cat(<<Alt(<<Lit("top"), Lit("best"), Lit("highest")>>), Star(Dot), Opt(Alt(<<Lit("5"), Lit("five"), Lit("10"), Lit("ten")>>)), Star(Dot), Lit("cit")>>),
      \* (?:which|what).*(?:best|top).*cit.*(?:invest|demand)
      Cat(<<Alt(<<Lit("which"), Lit("what")>>), Star(Dot), Alt(<<Lit("best"), Lit("top")>>), Star(Dot), Lit("cit"), Star(Dot), Alt(<<Lit("invest"), Lit("demand")>>)>>),
      \* (?:rank|list).*cit.*(?:demand|invest)
      Cat(<<Alt(<<Lit("rank"), Lit("list")>>), Star(Dot), Lit("cit"), Star(Dot), Alt(<<Lit("demand"), Lit("invest")>>)>>),
      \* (?:show|give).*(?:top|best).*cit
      Cat(<<Alt(<<Lit("show"), Lit("give")>>), Star(Dot), Alt(<<Lit("top"), Lit("best")>>), Star(Dot), Lit("cit")>>),
      \* cit.*(?:highest|most).*demand
      Cat(<<Lit("cit"), Star(Dot), Alt(<<Lit("highest"), Lit("most")>>), Star(Dot), Lit("demand")>>)
  >> >>,
  <<"bottom_cities", <<
      \* (?:worst|lowest|bottom).*(?:5|five|10|ten)?.*cit
      Cat(<<Alt(<<Lit("worst"), Lit("lowest"), Lit("bottom")>>), Star(Dot), Opt(Alt(<<Lit("5"), Lit("five"), Lit("10"), Lit("ten")>>)), Star(Dot), Lit("cit")>>),
      \* (?:which|what).*(?:worst|lowest|bad).*cit
      Cat(<<Alt(<<Lit("which"), Lit("what")>>), Star(Dot), Alt(<<Lit("worst"), Lit("lowest"), Lit("bad")>>), Star(Dot), Lit("cit")>>),
      \* cit.*(?:lowest|least).*demand
      Cat(<<Lit("cit"), Star(Dot), Alt(<<Lit("lowest"), Lit("least")>>), Star(Dot), Lit("demand")>>),
      \* (?:avoid|bad).*cit.*invest
      Cat(<<Alt(<<Lit("avoid"), Lit("bad")>>), Star(Dot), Lit("cit"), Star(Dot), Lit("invest")>>)
  >> >>,
  <<"top_city", <<
      \* (?:top|best|highest|number.*1|#1).*(?:1|one|single).*cit
      Cat(<<Alt(<<Lit("top"), Lit("best"), Lit("highest"), Cat(<<Lit("number"), Star(Dot), Lit("1")>>), Lit("#1")>>), Star(Dot), Alt(<<Lit("1"), Lit("one"), Lit("single")>>), Star(Dot), Lit("cit")>>),
      \* (?:which|what).*(?:is|the).*(?:best|top).*(?:single|one|1).*cit
      Cat(<<Alt(<<Lit("which"), Lit("what")>>), Star(Dot), Alt(<<Lit("is"), Lit("the")>>), Star(Dot), Alt(<<Lit("best"), Lit("top")>>), Star(Dot), Alt(<<Lit("single"), Lit("one"), Lit("1")>>), Star(Dot), Lit("cit")>>),
      \* (?:best|top).*cit.*(?:overall|absolute)
      Cat(<<Alt(<<Lit("best"), Lit("top")>>), Star(Dot), Lit("cit"), Star(Dot), Alt(<<Lit("overall"), Lit("absolute")>>)>>),
      \* (?:single|one).*(?:best|top).*cit
      Cat(<<Alt(<<Lit("single"), Lit("one")>>), Star(Dot), Alt(<<Lit("best"), Lit("top")>>), Star(Dot), Lit("cit")>>)
  >> >>,
  <<"bottom_city", <<
      \* (?:worst|lowest|bottom|last).*(?:1|one|single).*cit
      Cat(<<Alt(<<Lit("worst"), Lit("lowest"), Lit("bottom"), Lit("last")>>), Star(Dot), Alt(<<Lit("1"), Lit("one"), Lit("single")>>), Star(Dot), Lit("cit")>>),
      \* (?:which|what).*(?:is|the).*(?:worst|lowest).*(?:single|one|1).*cit
      Cat(<<Alt(<<Lit("which"), Lit("what")>>), Star(Dot), Alt(<<Lit("is"), Lit("the")>>), Star(Dot), Alt(<<Lit("worst"), Lit("lowest")>>), Star(Dot), Alt(<<Lit("single"), Lit("one"), Lit("1")>>), Star(Dot), Lit("cit")>>),
      \* (?:worst|lowest).*cit.*(?:overall|absolute)
      Cat(<<Alt(<<Lit("worst"), Lit("lowest")>>), Star(Dot), Lit("cit"), Star(Dot), Alt(<<Lit("overall"), Lit("absolute")>>)>>),
      \* (?:single|one).*(?:worst|lowest).*cit
      Cat(<<Alt(<<Lit("single"), Lit("one")>>), Star(Dot), Alt(<<Lit("worst"), Lit("lowest")>>), Star(Dot), Lit("cit")>>),
      \* (?:show|give|tell).*(?:the|me)?.*cit.*(?:with|has).*(?:lowest|worst).*demand
      Cat(<<Alt(<<Lit("show"), Lit("give"), Lit("tell")>>), Star(Dot), Opt(Alt(<<Lit("the"), Lit("me")>>)), Star(Dot), Lit("cit"), Star(Dot), Alt(<<Lit("with"), Lit("has")>>), Star(Dot), Alt(<<Lit("lowest"), Lit("worst")>>), Star(Dot), Lit("demand")>>),
      \* (?:which|what).*cit.*(?:has|with).*(?:lowest|worst|least).*demand
      Cat(<<Alt(<<Lit("which"), Lit("what")>>), Star(Dot), Lit("cit"), Star(Dot), Alt(<<Lit("has"), Lit("with")>>), Star(Dot), Alt(<<Lit("lowest"), Lit("worst"), Lit("least")>>), Star(Dot), Lit("demand")>>)
  >> >>,
  <<"low_demand", <<
      \* low.*demand.*(\w+)
      Cat(<<Lit("low"), Star(Dot), Lit("demand"), Star(Dot), Grp(Plus(Set(WordCh)))>>),
      \* least.*demand.*(\w+)
      Cat(<<Lit("least"), Star(Dot), Lit("demand"), Star(Dot), Grp(Plus(Set(WordCh)))>>),
      \* (?:which|what).*(?:area|localit).*low.*demand.*(\w+)
      Cat(<<Alt(<<Lit("which"), Lit("what")>>), Star(Dot), Alt(<<Lit("area"), Lit("localit")>>), Star(Dot), Lit("low"), Star(Dot), Lit("demand"), Star(Dot), Grp(Plus(Set(WordCh)))>>),
      \* (?:cheap|affordable|budget).*(?:area|localit).*(\w+)
      Cat(<<Alt(<<Lit("cheap"), Lit("affordable"), Lit("budget")>>), Star(Dot), Alt(<<Lit("area"), Lit("localit")>>), Star(Dot), Grp(Plus(Set(WordCh)))>>),
      \* where.*(?:cheap|affordable|budget).*(\w+)
      Cat(<<Lit("where"), Star(Dot), Alt(<<Lit("cheap"), Lit("affordable"), Lit("budget")>>), Star(Dot), Grp(Plus(Set(WordCh)))>>),
      \* (\w+).*low.*demand
      Cat(<<Grp(Plus(Set(WordCh))), Star(Dot), Lit("low"), Star(Dot), Lit("demand")>>)
  >> >>,
  <<"historical", <<
      \* historical.*(?:in|for)\s+(\w+)
      Cat(<<Lit("historical"), Star(Dot), Alt(<<Lit("in"), Lit("for")>>), Plus(Set(Space)), Grp(Plus(Set(WordCh)))>>),
      \* past.*data.*(\w+)
      Cat(<<Lit("past"), Star(Dot), Lit("data"), Star(Dot), Grp(Plus(Set(WordCh)))>>),
      \* trend.*(?:in|for)\s+(\w+)
      Cat(<<Lit("trend"), Star(Dot), Alt(<<Lit("in"), Lit("for")>>), Plus(Set(Space)), Grp(Plus(Set(WordCh)))>>),
      \* show.*history.*(\w+)
      Cat(<<Lit("show"), Star(Dot), Lit("history"), Star(Dot), Grp(Plus(Set(WordCh)))>>)
  >> >>,
  <<"help", <<
      \* help
      Lit("help"),
      \* what.*can.*do
      Cat(<<Lit("what"), Star(Dot), Lit("can"), Star(Dot), Lit("do")>>),
      \* how.*work
      Cat(<<Lit("how"), Star(Dot), Lit("work")>>),
      \* guide
      Lit("guide"),
      \* assist
      Lit("assist")
  >> >>,
  <<"tenant_quality", <<
      \* tenant.*quality.*(\w+)
      Cat(<<Lit("tenant"), Star(Dot), Lit("quality"), Star(Dot), Grp(Plus(Set(WordCh)))>>),
      \* risk.*score.*(\w+)
      Cat(<<Lit("risk"), Star(Dot), Lit("score"), Star(Dot), Grp(Plus(Set(WordCh)))>>),
      \* invest.*grade.*(\w+)
      Cat(<<Lit("invest"), Star(Dot), Lit("grade"), Star(Dot), Grp(Plus(Set(WordCh)))>>),
      \* quality.*tenant.*(\w+)
      Cat(<<Lit("quality"), Star(Dot), Lit("tenant"), Star(Dot), Grp(Plus(Set(WordCh)))>>),
      \* churn.*risk.*(\w+)
      Cat(<<Lit("churn"), Star(Dot), Lit("risk"), Star(Dot), Grp(Plus(Set(WordCh)))>>),
      \* financial.*health.*(\w+)
      Cat(<<Lit("financial"), Star(Dot), Lit("health"), Star(Dot), Grp(Plus(Set(WordCh)))>>),
      \* safe.*invest.*(\w+)
      Cat(<<Lit("safe"), Star(Dot), Lit("invest"), Star(Dot), Grp(Plus(Set(WordCh)))>>),
      \* how.*safe.*(\w+)
      Cat(<<Lit("how"), Star(Dot), Lit("safe"), Star(Dot), Grp(Plus(Set(WordCh)))>>),
      \* tenant.*profile.*(\w+)
      Cat(<<Lit("tenant"), Star(Dot), Lit("profile"), Star(Dot), Grp(Plus(Set(WordCh)))>>),
      \* quality.*adjusted.*(\w+)
      Cat(<<Lit("quality"), Star(Dot), Lit("adjusted"), Star(Dot), Grp(Plus(Set(WordCh)))>>)
  >> >>
>>

follow_up_patterns == <<
  <<"demand_forecast", <<
      \* ^(?:and|what about|how about).*(?:demand|forecast)
      Cat(<<Bol, Alt(<<Lit("and"), Lit("what about"), Lit("how about")>>), Star(Dot), Alt(<<Lit("demand"), Lit("forecast")>>)>>),
      \* ^(?:show|tell).*(?:demand|forecast)
      Cat(<<Bol, Alt(<<Lit("show"), Lit("tell")>>), Star(Dot), Alt(<<Lit("demand"), Lit("forecast")>>)>>),
      \* ^demand
      Cat(<<Bol, Lit("demand")>>),
      \* ^(?:and|what|how)\s+about
      Cat(<<Bol, Alt(<<Lit("and"), Lit("what"), Lit("how")>>), Plus(Set(Space)), Lit("about")>>)
  >> >>,
  <<"gap_analysis", <<
      \* ^(?:and|what about|how about).*(?:gap|invest|opportunit)
      Cat(<<Bol, Alt(<<Lit("and"), Lit("what about"), Lit("how about")>>), Star(Dot), Alt(<<Lit("gap"), Lit("invest"), Lit("opportunit")>>)>>),
      \* ^(?:show|tell).*(?:gap|invest|opportunit)
      Cat(<<Bol, Alt(<<Lit("show"), Lit("tell")>>), Star(Dot), Alt(<<Lit("gap"), Lit("invest"), Lit("opportunit")>>)>>),
      \* ^(?:where|which).*(?:invest|area|localit)
      Cat(<<Bol, Alt(<<Lit("where"), Lit("which")>>), Star(Dot), Alt(<<Lit("invest"), Lit("area"), Lit("localit")>>)>>),
      \* ^gap
      Cat(<<Bol, Lit("gap")>>),
      \* ^(?:and|what).*(?:the)?\s*gap
      Cat(<<Bol, Alt(<<Lit("and"), Lit("what")>>), Star(Dot), Opt(Lit("the")), Star(Set(Space)), Lit("gap")>>)
  >> >>,
  <<"historical", <<
      \* ^(?:and|what about|how about).*(?:historical|trend|past)
      Cat(<<Bol, Alt(<<Lit("and"), Lit("what about"), Lit("how about")>>), Star(Dot), Alt(<<Lit("historical"), Lit("trend"), Lit("past")>>)>>),
      \* ^(?:show|tell).*(?:historical|trend|past|history)
      Cat(<<Bol, Alt(<<Lit("show"), Lit("tell")>>), Star(Dot), Alt(<<Lit("historical"), Lit("trend"), Lit("past"), Lit("history")>>)>>),
      \* ^(?:historical|trend)
      Cat(<<Bol, Alt(<<Lit("historical"), Lit("trend")>>)>>)
  >> >>
>>

PatternsOf(table, intent) ==
  LET k == CHOOSE j \in 1 .. Len(table) : table[j][1] = intent IN table[k][2]
AnyPattern(patterns, s) == \E k \in 1 .. Len(patterns) : Search(patterns[k], s)

(***************************************************************************)
(* detect_intent.  A confidence is written in hundredths (0.95 is 95).     *)
(***************************************************************************)
has_bhk(query_lower) == Search(Cat(<<Plus(Set(Digit)), Star(Set(Space)), Lit("bhk")>>), query_lower)
has_rent(query_lower) ==
  \/ Search(Cat(<<Alt(<<Lit("rent"), Lit("rental")>>), Rep(Set({":"} \cup Space), 0, 5), Grp(Alt(<<Rep(Set(Digit), 4, Inf), Cat(<<Plus(Set(Digit)), Lit("k")>>)>>))>>), query_lower)
  \/ Search(Cat(<<Grp(Alt(<<Rep(Set(Digit), 4, Inf), Cat(<<Plus(Set(Digit)), Lit("k")>>)>>)), Rep(Set({":"} \cup Space), 0, 5), Alt(<<Lit("rent"), Lit("rental")>>)>>), query_lower)
  \/ Search(Cat(<<Lit("average"), Plus(Set({":"} \cup Space)), Alt(<<Lit("rent"), Lit("rental")>>)>>), query_lower)

investment_safety(query_lower) ==
  \/ Search(Cat(<<Alt(<<Lit("safe"), Lit("risk"), Lit("grade"), Lit("rating")>>), Star(Dot), Lit("invest")>>), query_lower)
  \/ Search(Cat(<<Lit("invest"), Star(Dot), Alt(<<Lit("safe"), Lit("risk"), Lit("grade"), Lit("rating")>>)>>), query_lower)
  \/ Search(Cat(<<Lit("is"), Star(Dot), Alt(<<Lit("palakkad"), Lit("mumbai"), Lit("pune"), Lit("delhi"), Lit("bangalore")>>), Star(Dot), Lit("safe")>>), query_lower)

\* (variant: the scan stops at the first intent that has a matching pattern)
RECURSIVE ScanIntentsToFirst(_, _, _)
ScanIntentsToFirst(k, query_lower, best) ==
  IF k > Len(intent_patterns) THEN best
  ELSE IF AnyPattern(intent_patterns[k][2], query_lower)
    THEN <<intent_patterns[k][1], IF intent_patterns[k][1] # "help" THEN 80 ELSE 60>>
  ELSE ScanIntentsToFirst(k + 1, query_lower, best)

\* The general stage: every intent of the catalog in order, every pattern
\* of it; a match replaces the best intent only with a strictly higher score.
RECURSIVE ScanIntents(_, _, _)
ScanIntents(k, query_lower, best) ==
  IF k > Len(intent_patterns) THEN best
  ELSE LET intent == intent_patterns[k][1]
           score  == IF intent # "help" THEN 80 ELSE 60
       IN  ScanIntents(k + 1, query_lower,
             IF AnyPattern(intent_patterns[k][2], query_lower) /\ score > best[2]
             THEN <<intent, score>> ELSE best)

\* The follow-up stage: the first intent of follow_up_patterns with a match.
FollowUp(query_lower) ==
  LET hits == { k \in 1 .. Len(follow_up_patterns) :
                  AnyPattern(follow_up_patterns[k][2], query_lower) }
  IN  IF hits = {} THEN None
      ELSE follow_up_patterns[CHOOSE k \in hits : \A j \in hits : k <= j][1]

\* (variant: a remembered intent is context enough)
has_context_intent_only(last_city, last_intent) == last_intent # None

\* `if self.last_intent and self.last_city': all that detect_intent reads of
\* the Dialogue State.
has_context(last_city, last_intent) == last_intent # None /\ last_city # None

GeneralStage(query_lower, context) ==
  IF context /\ FollowUp(query_lower) # None
  THEN <<FollowUp(query_lower), 90>>
  ELSE ScanIntents(1, query_lower, <<"unknown", 0>>)

RankingStage(query_lower, context) ==
  IF Search(Cat(<<Alt(<<Lit("top"), Lit("best"), Lit("highest")>>), Star(Dot), Alt(<<Lit("1"), Lit("one"), Lit("single")>>), Star(Dot), Lit("cit")>>), query_lower)
    THEN <<"top_city", 95>>
  ELSE IF Search(Cat(<<Alt(<<Lit("worst"), Lit("lowest"), Lit("bottom")>>), Star(Dot), Alt(<<Lit("1"), Lit("one"), Lit("single")>>), Star(Dot), Lit("cit")>>), query_lower)
    THEN <<"bottom_city", 95>>
  ELSE IF Search(Cat(<<Alt(<<Lit("the"), Lit("which"), Lit("what")>>), Star(Dot), Lit("cit"), Star(Dot), Alt(<<Lit("lowest"), Lit("worst"), Lit("least")>>), Star(Dot), Lit("demand")>>), query_lower)
    THEN <<"bottom_city", 95>>
  ELSE IF Search(Cat(<<Alt(<<Lit("show"), Lit("tell"), Lit("give")>>), Star(Dot), Lit("cit"), Star(Dot), Alt(<<Lit("lowest"), Lit("worst")>>), Star(Dot), Lit("demand")>>), query_lower)
    THEN <<"bottom_city", 95>>
  ELSE IF Search(Cat(<<Alt(<<Lit("the"), Lit("which"), Lit("what")>>), Star(Dot), Lit("cit"), Star(Dot), Alt(<<Lit("highest"), Lit("best"), Lit("most")>>), Star(Dot), Lit("demand")>>), query_lower)
    THEN <<"top_city", 95>>
  ELSE IF Search(Cat(<<Alt(<<Lit("show"), Lit("tell"), Lit("give")>>), Star(Dot), Lit("cit"), Star(Dot), Alt(<<Lit("highest"), Lit("best"), Lit("most")>>), Star(Dot), Lit("demand")>>), query_lower)
    THEN <<"top_city", 95>>
  ELSE IF Search(Cat(<<Alt(<<Lit("top"), Lit("best"), Lit("highest"), Lit("worst"), Lit("lowest"), Lit("bottom")>>), Star(Dot), Lit("cit")>>), query_lower)
    THEN IF Search(Alt(<<Lit("worst"), Lit("lowest"), Lit("bottom")>>), query_lower)
         THEN <<"bottom_cities", 95>> ELSE <<"top_cities", 95>>
  ELSE IF Contains(query_lower, "gap") /\ Contains(query_lower, "analys")
    THEN <<"gap_analysis", 95>>
  ELSE IF /\ Contains(query_lower, "low") /\ Contains(query_lower, "demand")
          /\ AnyPattern(PatternsOf(intent_patterns, "low_demand"), query_lower)
    THEN <<"low_demand", 95>>
  ELSE IF /\ \/ Contains(query_lower, "oversuppl")
             \/ Contains(query_lower, "low") /\ Contains(query_lower, "gap")
          /\ AnyPattern(PatternsOf(intent_patterns, "low_gap"), query_lower)
    THEN <<"low_gap", 95>>
  ELSE IF /\ Contains(query_lower, "oversuppl")
          /\ AnyPattern(PatternsOf(intent_patterns, "low_gap"), query_lower)
    THEN <<"low_gap", 90>>
  ELSE IF /\ Contains(query_lower, "undersuppl")
          /\ AnyPattern(PatternsOf(intent_patterns, "gap_analysis"), query_lower)
    THEN <<"gap_analysis", 90>>
  ELSE GeneralStage(query_lower, context)

\* (variant: the BHK and rent check made after the other stages)
classify_vocabulary_first(query, context) ==
  LET query_lower == Strip(ToLower(query))
      general == RankingStage(query_lower, context)
  IN  IF general[1] # "unknown" THEN general
      ELSE IF has_bhk(query_lower) \/ has_rent(query_lower) THEN <<"gap_analysis", 95>>
      ELSE general

\* The stages of detect_intent for a query; context is has_context of the
\* Dialogue State at the call.
classify(query, context) ==
  LET query_lower == Strip(ToLower(query))
  IN  IF has_bhk(query_lower) \/ has_rent(query_lower) THEN <<"gap_analysis", 95>>
      ELSE IF Contains(query_lower, "quality") /\ Contains(query_lower, "adjusted")
        THEN <<"tenant_quality", 98>>
      ELSE IF investment_safety(query_lower) THEN <<"tenant_quality", 98>>
      ELSE RankingStage(query_lower, context)

(***************************************************************************)
(* Entity extractors.                                                      *)
(***************************************************************************)
\* self.cities: the fallback list _load_cities returns when the demand
\* service does not answer the constructor's GET /cities.
cities == <<"Mumbai", "Delhi", "Bangalore", "Hyderabad", "Chennai",
            "Kolkata", "Pune", "Ahmedabad", "Jaipur", "Surat">>
city_variations == << <<"bombay", "Mumbai">>, <<"calcutta", "Kolkata">>,
                      <<"madras", "Chennai">>, <<"bangalore", "Bangalore">>,
                      <<"bengaluru", "Bangalore">> >>
ignored_words == {"August", "September", "October", "Mumbai", "Delhi",
                  "Year", "Month", "Demand", "Quality"}

First(S) == CHOOSE k \in S : \A j \in S : k <= j

extract_city(query) ==
  LET query_lower == Strip(ToLower(query))
      direct == { k \in 1 .. Len(cities) : Contains(query_lower, ToLower(cities[k])) }
      varied == { k \in 1 .. Len(city_variations) :
                    Contains(query_lower, city_variations[k][1]) }
      match  == Find(Cat(<<Alt(<<Lit("in"), Lit("for"), Lit("at"), Lit("to")>>), Plus(Set(Space)), Grp(Cat(<<Set(Upper), Plus(Set(Lower)), Opt(Cat(<<Lit("-"), Set(Upper), Plus(Set(Lower))>>))>>))>>), query)
  IN  IF direct # {} THEN cities[First(direct)]
      ELSE IF varied # {} THEN city_variations[First(varied)][2]
      ELSE IF match.found /\ match.g1 \notin ignored_words THEN match.g1
      ELSE None

\* int() of a string of decimal digits.
DigitVal(c) == CHOOSE d \in 0 .. 9 : CharAt("0123456789", d + 1) = c
RECURSIVE ParseInt(_)
ParseInt(s) == IF s = "" THEN 0 ELSE 10 * ParseInt(SubSeq(s, 1, Len(s) - 1)) + DigitVal(CharAt(s, Len(s)))

\* float() of digits with an optional fraction, in hundredths (8 is 800,
\* 6.5 is 650); digits after the second decimal are dropped.
ParseHundredths(s) ==
  LET dots == { i \in 1 .. Len(s) : CharAt(s, i) = "." }
      whole == IF dots = {} THEN s ELSE SubSeq(s, 1, First(dots) - 1)
      frac  == IF dots = {} THEN "" ELSE SubSeq(s, First(dots) + 1, Len(s))
      two   == SubSeq(frac \o "00", 1, 2)
  IN  100 * ParseInt(whole) + ParseInt(two)

months == << <<"january", 1>>, <<"jan", 1>>, <<"february", 2>>, <<"feb", 2>>,
             <<"march", 3>>, <<"mar", 3>>, <<"april", 4>>, <<"apr", 4>>, <<"may", 5>>,
             <<"june", 6>>, <<"jun", 6>>, <<"july", 7>>, <<"jul", 7>>,
             <<"august", 8>>, <<"aug", 8>>, <<"september", 9>>, <<"sep", 9>>,
             <<"sept", 9>>, <<"october", 10>>, <<"oct", 10>>, <<"november", 11>>,
             <<"nov", 11>>, <<"december", 12>>, <<"dec", 12>> >>

\* now is the <<year, month>> of datetime.now().
extract_date(query, now) ==
  LET query_lower == ToLower(query)
      year_match  == Find(Cat(<<Lit("20"), Rep(Set(Digit), 2, 2)>>), query)
      named == { k \in 1 .. Len(months) : Contains(query_lower, months[k][1]) }
  IN  << IF year_match.found THEN ParseInt(SubSeq(query, year_match.start + 1, year_match.end))
         ELSE now[1],
         IF named # {} THEN months[First(named)][2] ELSE now[2] >>

extract_bhk(query) ==
  LET match == Find(Cat(<<Grp(Set(Digit)), Star(Set(Space)), Lit("bhk")>>), ToLower(query))
  IN  IF match.found THEN match.g1 ELSE None

\* re.IGNORECASE: the patterns are matched against the lower-cased text with
\* [A-Z] and [a-z] both read as "a letter"; str.capitalize() then fixes the
\* case of every word, whatever case the query had.
Capitalize(word) ==
  IF word = "" THEN ""
  ELSE LET c == CharAt(word, 1)
       IN  (IF c \in Lower THEN CharAt(UpperStr, CHOOSE i \in 1 .. 26 : CharAt(LowerStr, i) = c)
            ELSE c) \o SubSeq(word, 2, Len(word))
RECURSIVE CapitalizeWords(_)
CapitalizeWords(s) ==
  LET t == Strip(s)
      gaps == { i \in 1 .. Len(t) : CharAt(t, i) \in Space }
  IN  IF gaps = {} THEN Capitalize(t)
      ELSE Capitalize(SubSeq(t, 1, First(gaps) - 1)) \o " "
             \o CapitalizeWords(SubSeq(t, First(gaps) + 1, Len(t)))
name_patterns == <<
  \* (?:my name is|i am|i\'m|this is|call me)\s+([A-Z][a-z]+(?:\s+[A-Z][a-z]+)*(?:\s+[A-Z][a-z]+)?)
  Cat(<<Alt(<<Lit("my name is"), Lit("i am"), Lit("i'm"), Lit("this is"), Lit("call me")>>), Plus(Set(Space)), Grp(Cat(<<Set(Lower), Plus(Set(Lower)), Star(Cat(<<Plus(Set(Space)), Set(Lower), Plus(Set(Lower))>>)), Opt(Cat(<<Plus(Set(Space)), Set(Lower), Plus(Set(Lower))>>))>>))>>),
  \* (?:my name is|i am|i\'m|this is|call me)\s+([A-Z][a-z]+)
  Cat(<<Alt(<<Lit("my name is"), Lit("i am"), Lit("i'm"), Lit("this is"), Lit("call me")>>), Plus(Set(Space)), Grp(Cat(<<Set(Lower), Plus(Set(Lower))>>))>>) >>
extract_name(query) ==
  LET hits == { k \in 1 .. Len(name_patterns) : Search(name_patterns[k], ToLower(query)) }
  IN  IF hits = {} THEN None
      ELSE CapitalizeWords(Find(name_patterns[First(hits)], ToLower(query)).g1)

\* extract_economic_factors: for each factor the first pattern, in order,
\* that matches with a value inside the factor's range.  The result maps
\* only the factors found (values in hundredths); it is empty where the
\* code returns None.
inflation_patterns == <<
  \* (\d+\.?\d*)%?\s*inflation\b
  Cat(<<Grp(Cat(<<Plus(Set(Digit)), Opt(Lit(".")), Star(Set(Digit))>>)), Opt(Lit("%")), Star(Set(Space)), Lit("inflation"), Wb>>),
  \* \binflation\b.*?(\d+\.?\d*)%?
  Cat(<<Wb, Lit("inflation"), Wb, Lazy(Dot, 0, Inf), Grp(Cat(<<Plus(Set(Digit)), Opt(Lit(".")), Star(Set(Digit))>>)), Opt(Lit("%"))>>) >>
interest_patterns == <<
  \* (\d+\.?\d*)%?\s*interest\s+rate\b
  Cat(<<Grp(Cat(<<Plus(Set(Digit)), Opt(Lit(".")), Star(Set(Digit))>>)), Opt(Lit("%")), Star(Set(Space)), Lit("interest"), Plus(Set(Space)), Lit("rate"), Wb>>),
  \* \binterest\s+rate\b.*?(\d+\.?\d*)%?
  Cat(<<Wb, Lit("interest"), Plus(Set(Space)), Lit("rate"), Wb, Lazy(Dot, 0, Inf), Grp(Cat(<<Plus(Set(Digit)), Opt(Lit(".")), Star(Set(Digit))>>)), Opt(Lit("%"))>>),
  \* (\d+\.?\d*)%?\s*interest\b(?!\s*rate)
  Cat(<<Grp(Cat(<<Plus(Set(Digit)), Opt(Lit(".")), Star(Set(Digit))>>)), Opt(Lit("%")), Star(Set(Space)), Lit("interest"), Wb, NotAhead(Cat(<<Star(Set(Space)), Lit("rate")>>))>>),
  \* \binterest\b(?!\s*rate).*?(\d+\.?\d*)%?
  Cat(<<Wb, Lit("interest"), Wb, NotAhead(Cat(<<Star(Set(Space)), Lit("rate")>>)), Lazy(Dot, 0, Inf), Grp(Cat(<<Plus(Set(Digit)), Opt(Lit(".")), Star(Set(Digit))>>)), Opt(Lit("%"))>>) >>
employment_patterns == <<
  \* (\d+\.?\d*)%?\s*employment\b
  Cat(<<Grp(Cat(<<Plus(Set(Digit)), Opt(Lit(".")), Star(Set(Digit))>>)), Opt(Lit("%")), Star(Set(Space)), Lit("employment"), Wb>>),
  \* \bemployment\b.*?(\d+\.?\d*)%?
  Cat(<<Wb, Lit("employment"), Wb, Lazy(Dot, 0, Inf), Grp(Cat(<<Plus(Set(Digit)), Opt(Lit(".")), Star(Set(Digit))>>)), Opt(Lit("%"))>>) >>

\* float(match.group(1)) for a pattern that matches.
FactorOf(pattern, query_lower) == ParseHundredths(Find(pattern, query_lower).g1)
Within(value, lo, hi) == lo <= value /\ value <= hi
FirstOf(patterns, query_lower, good) ==
  IF good = {} THEN 0 - 1 ELSE FactorOf(patterns[First(good)], query_lower)
\* The value of the first pattern that matches within [lo, hi], else -1.
FactorValue(patterns, query_lower, lo, hi) ==
  FirstOf(patterns, query_lower,
          { k \in 1 .. Len(patterns) :
              /\ Search(patterns[k], query_lower)
              /\ Within(FactorOf(patterns[k], query_lower), lo, hi) })

\* `factors if factors else None': only the factors found.
Found(found) == [ k \in { f \in DOMAIN found : found[f] >= 0 } |-> found[k] ]
FactorsOf(query_lower) ==
  Found([ inflation_rate  |-> FactorValue(inflation_patterns, query_lower, 0, 2000),
          interest_rate   |-> FactorValue(interest_patterns, query_lower, 0, 2000),
          employment_rate |-> FactorValue(employment_patterns, query_lower, 5000, 10000) ])
extract_economic_factors(query) == FactorsOf(ToLower(query))

question_words == {"Which", "What", "Where", "How", "Show", "Tell", "Find"}
locality_patterns ==
  << Grp(Cat(<<Lit("Area"), Plus(Set(Space)), Plus(Set(Digit))>>)),
     Cat(<<Alt(<<Lit("in"), Lit("at")>>), Plus(Set(Space)), Grp(Cat(<<Set(Upper), Plus(Set(Lower)), Opt(Cat(<<Plus(Set(Space)), Set(Upper), Plus(Set(Lower))>>))>>))>>),
     Cat(<<Grp(Cat(<<Set(Upper), Plus(Set(Lower)), Opt(Cat(<<Plus(Set(Space)), Set(Upper), Plus(Set(Lower))>>))>>)), Plus(Set(Space)), Alt(<<Lit("area"), Lit("locality")>>)>>) >>
extract_locality(query) ==
  LET accepted == { k \in 1 .. Len(locality_patterns) :
                      LET match == Find(locality_patterns[k], query)
                      IN  /\ match.found
                          /\ match.g1 \notin question_words
                          /\ \A j \in 1 .. Len(cities) : cities[j] # match.g1 }
  IN  IF accepted = {} THEN None ELSE Find(locality_patterns[First(accepted)], query).g1


\* The patterns of extract_rent, each with its text: the code tests
\* `'k' in pattern' on the text.
rent_patterns == <<
  [text |-> "(?:rent|rental)[:\\s]+([\\d,]+)k", term |-> Cat(<<Alt(<<Lit("rent"), Lit("rental")>>), Plus(Set({":"} \cup Space)), Grp(Plus(Set({","} \cup Digit))), Lit("k")>>)],
  [text |-> "(?:rent|rental)[:\\s]+([\\d,]{4,})", term |-> Cat(<<Alt(<<Lit("rent"), Lit("rental")>>), Plus(Set({":"} \cup Space)), Grp(Rep(Set({","} \cup Digit), 4, Inf))>>)],
  [text |-> "average.*(?:rent|rental).*([\\d,]+)k", term |-> Cat(<<Lit("average"), Star(Dot), Alt(<<Lit("rent"), Lit("rental")>>), Star(Dot), Grp(Plus(Set({","} \cup Digit))), Lit("k")>>)],
  [text |-> "average.*(?:rent|rental).*([\\d,]{4,})", term |-> Cat(<<Lit("average"), Star(Dot), Alt(<<Lit("rent"), Lit("rental")>>), Star(Dot), Grp(Rep(Set({","} \cup Digit), 4, Inf))>>)],
  [text |-> "([\\d,]+)k\\s*(?:rent|rental)", term |-> Cat(<<Grp(Plus(Set({","} \cup Digit))), Lit("k"), Star(Set(Space)), Alt(<<Lit("rent"), Lit("rental")>>)>>)],
  [text |-> "([\\d,]{4,})\\s*(?:rent|rental)", term |-> Cat(<<Grp(Rep(Set({","} \cup Digit), 4, Inf)), Star(Set(Space)), Alt(<<Lit("rent"), Lit("rental")>>)>>)],
  [text |-> "([\\d,]+)k(?!\\s*bhk)", term |-> Cat(<<Grp(Plus(Set({","} \cup Digit))), Lit("k"), NotAhead(Cat(<<Star(Set(Space)), Lit("bhk")>>))>>)],
  [text |-> "([\\d,]{4,})(?!\\s*bhk)", term |-> Cat(<<Grp(Rep(Set({","} \cup Digit), 4, Inf)), NotAhead(Cat(<<Star(Set(Space)), Lit("bhk")>>))>>)] >>

\* str.replace(',', '')
RECURSIVE Uncomma(_)
Uncomma(s) ==
  IF s = "" THEN ""
  ELSE (IF CharAt(s, 1) = "," THEN "" ELSE CharAt(s, 1)) \o Uncomma(Tail(s))

\* One round of the loop of extract_rent: the digits that int() is given for
\* a match of the pattern, "" standing for a text that int() rejects.
rent_value(pattern, query, match) ==
  Uncomma(match.g1)
    \o (IF \/ Contains(pattern.text, "k")
           \/ match.end < Len(query) /\ ToLower(CharAt(query, match.end + 1)) = "k"
        THEN "000" ELSE "")
rent_of(pattern, query) == rent_value(pattern, query, Find(pattern.term, ToLower(query)))
\* Optional[int]: << >> is None and <<rent>> is the integer rent.
first_rent(query, good) ==
  IF good = {} THEN << >> ELSE <<ParseInt(rent_of(rent_patterns[First(good)], query))>>
extract_rent(query) ==
  first_rent(query,
             { k \in 1 .. Len(rent_patterns) :
                 /\ Search(rent_patterns[k].term, ToLower(query))
                 /\ rent_of(rent_patterns[k], query) # ""
                 /\ Within(ParseInt(rent_of(rent_patterns[k], query)), 5000, 500000) })
(***************************************************************************)
(* The collaborators.  A reply to one HTTP request is                      *)
(*   Raise(text)  requests raised (timeout, refused connection, a body     *)
(*                that is not JSON); text is str(e);                       *)
(*   Status       a reply whose status code is not 200;                    *)
(*   Ok(body)     a reply with status 200 and the JSON object body.        *)
(* A JSON object, and every dict of the code, is a function from its keys. *)
(***************************************************************************)
Raise(text) == [kind |-> "raise", text |-> text]
Status == [kind |-> "status"]
Ok(body) == [kind |-> "ok", body |-> body]

Has(data, key) == key \in DOMAIN data
Get(data, key, default) == IF key \in DOMAIN data THEN data[key] ELSE default
Put(data, key, value) == [k \in DOMAIN data \cup {key} |-> IF k = key THEN value ELSE data[k]]

\* What a call_* method returns for a reply; failed is its text for a
\* status other than 200.
api_result(reply, failed) ==
  IF reply.kind = "ok" THEN reply.body
  ELSE IF reply.kind = "status" THEN [error |-> failed]
  ELSE [error |-> reply.text]

\* The defaults of the economic factors, in hundredths (6.5, 7.0, 85.0).
default_inflation_rate == 650
default_interest_rate == 700
default_employment_rate == 8500
\* (variant: the request carries the factors of the query and nothing else)
api_economic_factors_as_found(economic_factors) == economic_factors
api_economic_factors(economic_factors) ==
  [ inflation_rate  |-> Get(economic_factors, "inflation_rate", default_inflation_rate),
    interest_rate   |-> Get(economic_factors, "interest_rate", default_interest_rate),
    employment_rate |-> Get(economic_factors, "employment_rate", default_employment_rate) ]

\* The requests the call_* methods send.
demand_request(city, date, economic_factors) ==
  [ to |-> "demand", path |-> "POST /predict", city |-> city, date |-> date,
    economic_factors |-> api_economic_factors(economic_factors) ]
enhanced_request(city, date, economic_factors) ==
  [ to |-> "demand", path |-> "POST /predict/enhanced", city |-> city, date |-> date,
    economic_factors |-> api_economic_factors(economic_factors) ]
gap_request(city, sort_by) ==
  [ to |-> "gap", path |-> "GET /historical", city |-> city, sort_by |-> sort_by ]
historical_request(city, n) ==
  [ to |-> "demand", path |-> "GET /historical", city |-> city, months |-> n ]
cities_request == [ to |-> "demand", path |-> "GET /cities" ]

call_demand_api(reply) == api_result(reply, "API request failed")
call_enhanced_demand_api(reply) == api_result(reply, "Enhanced API request failed")
call_gap_api(reply) == api_result(reply, "API request failed")
call_historical_api(reply) == api_result(reply, "API request failed")

(***************************************************************************)
(* get_city_rankings: GET /cities, then GET /historical/<city>?months=4    *)
(* for every city of the reply.  series maps a city to the reply to its    *)
(* request.  A city whose request raises, whose status is not 200 or whose *)
(* series is empty is left out.                                            *)
(***************************************************************************)
RECURSIVE SumDemand(_)
SumDemand(hist) == IF hist = << >> THEN 0 ELSE Head(hist).demand + SumDemand(Tail(hist))

\* list.sort(key, reverse): a stable insertion of row into the sorted rows.
RECURSIVE InsertBy(_, _, _)
InsertBy(row, rows, reverse) ==
  IF rows = << >> THEN <<row>>
  ELSE IF (IF reverse THEN row.demand > Head(rows).demand ELSE row.demand < Head(rows).demand)
       THEN <<row>> \o rows
       ELSE <<Head(rows)>> \o InsertBy(row, Tail(rows), reverse)
RECURSIVE SortByDemand(_, _)
SortByDemand(rows, reverse) ==
  IF rows = << >> THEN << >>
  ELSE InsertBy(rows[Len(rows)], SortByDemand(SubSeq(rows, 1, Len(rows) - 1), reverse), reverse)

RECURSIVE city_demands(_, _)
city_demands(names, series) ==
  IF names = << >> THEN << >>
  ELSE LET city  == Head(names)
           reply == series[city]
           hist  == IF reply.kind = "ok" THEN Get(reply.body, "historical_data", << >>) ELSE << >>
           total == SumDemand(hist)
       IN  (IF hist = << >> THEN << >>
            ELSE << [ city |-> city, demand |-> (total \div Len(hist)) \div 30,
                      monthly_demand |-> total \div Len(hist), total_demand |-> total ] >>)
           \o city_demands(Tail(names), series)

ranking_period == "Apr-Jul 2022"
\* (variant: the rows are sorted in ascending order for top and bottom alike)
get_city_rankings_ascending(top, count, listing, series) ==
  IF listing.kind = "status" THEN [error |-> "Failed to fetch cities"]
  ELSE IF listing.kind = "raise" THEN [error |-> listing.text]
  ELSE LET names  == Get(listing.body, "cities", << >>)
           ranked == SortByDemand(city_demands(names, series), FALSE)
       IN  [ cities |-> SubSeq(ranked, 1, IF Len(ranked) < count THEN Len(ranked) ELSE count),
             is_top |-> top, data_source |-> "historical", period |-> ranking_period ]

get_city_rankings(top, count, listing, series) ==
  IF listing.kind = "status" THEN [error |-> "Failed to fetch cities"]
  ELSE IF listing.kind = "raise" THEN [error |-> listing.text]
  ELSE LET names  == Get(listing.body, "cities", << >>)
           ranked == SortByDemand(city_demands(names, series), top)
       IN  [ cities |-> SubSeq(ranked, 1, IF Len(ranked) < count THEN Len(ranked) ELSE count),
             is_top |-> top, data_source |-> "historical", period |-> ranking_period ]

(***************************************************************************)
(* generate_response.  A response text is a record that names the template *)
(* (the branch of the code that wrote it) and carries the values the text  *)
(* is built from; a turn that ends in an uncaught exception is             *)
(* Raised(its class).  Gap ratios are in hundredths (0.15 is 15); the      *)
(* percent change kept in last_trend is the fraction num / den, den > 0.   *)
(***************************************************************************)
Raised(error) == [kind |-> "exception", error |-> error]
Text(template) == [kind |-> "text", template |-> template]
With(record, extra) == [k \in DOMAIN record \cup DOMAIN extra |->
                          IF k \in DOMAIN extra THEN extra[k] ELSE record[k]]

Take(seq, n) == SubSeq(seq, 1, IF Len(seq) < n THEN Len(seq) ELSE n)
LastN(seq, n) == SubSeq(seq, IF Len(seq) > n THEN Len(seq) - n + 1 ELSE 1, Len(seq))
RECURSIVE SumGap(_)
SumGap(localities) ==
  IF localities = << >> THEN 0 ELSE Head(localities).gap + SumGap(Tail(localities))
Abs(n) == IF n < 0 THEN 0 - n ELSE n

NoTrend == [known |-> FALSE, num |-> 0, den |-> 1]
Trend(num, den) == [known |-> TRUE, num |-> num, den |-> den]

\* str.replace('_', ' ')
RECURSIVE Unscore(_)
Unscore(s) ==
  IF s = "" THEN "" ELSE (IF Head(s) = "_" THEN " " ELSE Head(s)) \o Unscore(Tail(s))

render_demand_forecast(data, last_city, last_trend) ==
  IF Has(data, "error")
  THEN With(Text("demand_forecast_error"),
            [subject |-> IF last_city # None THEN last_city ELSE "most major cities"])
  ELSE LET city   == Get(data, "city", "the city")
           demand == Get(data, "predicted_demand", 0)
           monthly_demand == demand * 30
           extracted_factors == Get(data, "_extracted_economic_factors", << >>)
           month  == Get(data, "month", 0)
           year   == Get(data, "year", 0)
       IN  With(Text("demand_forecast"),
             [ city |-> city, demand |-> demand, monthly_demand |-> monthly_demand,
               factors |-> extracted_factors,
               dated |-> month \in 1 .. 12 /\ year # 0,
               trend |-> IF last_trend.known /\ last_city = city
                         THEN IF last_trend.num < (0 - 20) * last_trend.den
                              THEN IF monthly_demand > 50000 THEN "recovery" ELSE "continuation"
                              ELSE IF last_trend.num > 20 * last_trend.den THEN "growth"
                              ELSE "none"
                         ELSE "none",
               confident |-> Get(data, "confidence", "medium") = "high",
               strong |-> monthly_demand > 50000 ])

render_tenant_quality(data) ==
  IF Has(data, "error")
  THEN With(Text("tenant_quality_error"), [error_text |-> data.error])
  ELSE LET quality_data   == Get(data, "tenant_quality_analysis", << >>)
           recommendation == Get(data, "investment_recommendation", << >>)
           rating == Unscore(Get(recommendation, "rating", "UNKNOWN"))
           used   == Get(data, "economic_factors_used", << >>)
           extracted_factors ==
             IF DOMAIN used # {} THEN used ELSE Get(data, "_extracted_economic_factors", << >>)
       IN  With(Text("tenant_quality"),
             [ city |-> Get(data, "city", "the city"),
               scenario |-> DOMAIN extracted_factors \cap {"inflation_rate", "interest_rate"},
               rating |-> rating,
               confidence |-> Get(recommendation, "confidence", 0),
               grade_a |-> Get(quality_data, "high_quality_pct", 0),
               grade_b |-> Get(quality_data, "medium_quality_pct", 0),
               grade_d |-> Get(quality_data, "high_risk_pct", 0),
               risk_score |-> Get(quality_data, "average_default_risk", 0),
               quality_adjusted |-> Get(data, "quality_adjusted_demand", 0),
               base_demand |-> Get(Get(data, "base_demand", << >>), "predicted_demand", 0),
               advice |-> IF rating = "STRONG BUY" THEN "highly_recommended"
                          ELSE IF rating = "BUY" THEN "good_investment"
                          ELSE IF rating = "HOLD" THEN "proceed_with_caution"
                          ELSE "high_risk_market" ])

render_gap_analysis(data) ==
  IF Has(data, "error") THEN Text("gap_analysis_error")
  ELSE IF Has(data, "locality_data")
  THEN LET localities == data.locality_data
           n   == Len(localities)
           sum == SumGap(localities)
       IN  \* avg_gap = sum / n (0 for an empty list), compared in hundredths
           With(Text("gap_analysis_list"),
             [ city |-> Get(data, "city", "the city"),
               heading |-> "here are the **top undersupplied areas** (best for investment):",
               areas |-> Take(localities, 5),
               severity |-> IF n > 0 /\ Abs(sum) > 30 * n THEN "high"
                            ELSE IF n > 0 /\ Abs(sum) > 10 * n THEN "medium" ELSE "low",
               interpretation |->
                 IF n > 0 /\ sum > 10 * n
                 THEN "These areas show strong demand exceeding supply. Properties typically rent quickly with lower vacancy rates. Excellent investment opportunities."
                 ELSE IF n > 0 /\ sum < (0 - 10) * n
                 THEN "These areas show supply exceeding demand. Higher vacancy rates and competitive pricing are typical. Favorable for renters."
                 ELSE "The market shows balanced supply-demand conditions with moderate competition." ])
  ELSE With(Text("gap_analysis_locality"),
         [ city |-> Get(data, "city", "the city"),
           locality |-> Get(data, "area_locality", "the area"),
           gap_ratio |-> Get(data, "predicted_gap_ratio", 0),
           severity |-> Get(data, "gap_severity", "unknown"),
           wording |-> IF Get(data, "demand_supply_status", "unknown") = "demand_exceeds_supply"
                       THEN "Demand exceeds supply (undersupplied)"
                       ELSE "Supply exceeds demand (oversupplied)" ])

render_low_demand(data) ==
  IF Has(data, "error") THEN Text("low_demand_error")
  ELSE IF Has(data, "locality_data")
  THEN LET sorted_localities == Take(SortByDemand(data.locality_data, FALSE), 5)
           has_low_demand ==
             \E k \in 1 .. Len(sorted_localities) : sorted_localities[k].gap < 0
       IN  \* both texts end with area_descriptions[-1]
           IF sorted_localities = << >> THEN Raised("IndexError")
           ELSE With(Text("low_demand"),
                  [ city |-> Get(data, "city", "the city"),
                    areas |-> sorted_localities,
                    wording |-> IF has_low_demand THEN "Lowest demand areas"
                                ELSE "All areas show high demand" ])
  ELSE Text("low_demand_no_data")

\* (variant: the first five localities are presented as oversupplied
\* whatever their gaps)
render_low_gap_unchecked(data) ==
  IF Has(data, "error") THEN Text("low_gap_error")
  ELSE IF Has(data, "locality_data")
  THEN With(Text("low_gap"),
         [ city |-> Get(data, "city", "the city"),
           areas |-> Take(data.locality_data, 5),
           wording |-> "Highest oversupply areas" ])
  ELSE Text("low_gap_no_data")

\* (variant: one wording for every list that has localities)
render_low_gap_one_wording(data) ==
  IF Has(data, "error") THEN Text("low_gap_error")
  ELSE IF Has(data, "locality_data")
  THEN LET top_oversupplied == Take(data.locality_data, 5)
           has_oversupply ==
             \E k \in 1 .. Len(top_oversupplied) : top_oversupplied[k].gap < 0
       IN  With(Text("low_gap"),
             [ city |-> Get(data, "city", "the city"),
               areas |-> top_oversupplied,
               wording |->
                 IF has_oversupply THEN "Highest oversupply areas"
                 ELSE IF top_oversupplied = << >> THEN "No oversupplied areas found"
                 ELSE "No oversupplied areas found. Least undersupplied areas" ])
  ELSE Text("low_gap_no_data")

render_low_gap(data) ==
  IF Has(data, "error") THEN Text("low_gap_error")
  ELSE IF Has(data, "locality_data")
  THEN LET top_oversupplied == Take(data.locality_data, 5)
           has_oversupply ==
             \E k \in 1 .. Len(top_oversupplied) : top_oversupplied[k].gap < 0
       IN  With(Text("low_gap"),
             [ city |-> Get(data, "city", "the city"),
               areas |-> top_oversupplied,
               wording |->
                 IF has_oversupply THEN "Highest oversupply areas"
                 ELSE IF top_oversupplied = << >> THEN "No oversupplied areas found"
                 ELSE IF Len(top_oversupplied) = 1
                   THEN "No oversupplied areas found. Least undersupplied area"
                 ELSE "No oversupplied areas found. Least undersupplied areas" ])
  ELSE Text("low_gap_no_data")

\* The historical branch also stores the trend: the result has the response
\* and the value of self.last_trend after the call.
RECURSIVE Gcd(_, _)
Gcd(a, b) == IF b = 0 THEN a ELSE Gcd(b, a % b)
PercentChange(first, last) ==
  LET num == (last - first) * 100
      g   == Gcd(Abs(num), first)
  IN  Trend(num \div g, first \div g)

\* (variant: the last month is taken as partial in a series of two as well)
is_partial_of_two(displayed_months) ==
  LET n == Len(displayed_months)
  IN  n >= 2 /\ 2 * displayed_months[n].demand < displayed_months[n - 1].demand

\* `last < (second_last * 0.5)', asked only of three or more months.
is_partial(displayed_months) ==
  LET n == Len(displayed_months)
  IN  n >= 3 /\ 2 * displayed_months[n].demand < displayed_months[n - 1].demand

\* (variant: a series of one month is stored as a trend of zero)
render_historical_of_one(data, last_trend) ==
  IF Has(data, "error")
  THEN [ response |-> With(Text("historical_error"), [error_text |-> data.error]),
         last_trend |-> last_trend ]
  ELSE LET historical == Get(data, "historical_data", << >>)
           city == Get(data, "city", "the city")
           displayed_months == LastN(historical, 6)
           n == Len(displayed_months)
           first == displayed_months[1].demand
           last == IF is_partial(displayed_months) THEN displayed_months[n - 1].demand
                   ELSE displayed_months[n].demand
           text == With(Text("historical"), [city |-> city, listed |-> displayed_months])
       IN  IF historical = << >>
           THEN [ response |-> With(Text("historical_no_data"), [city |-> city]),
                  last_trend |-> last_trend ]
           ELSE IF n < 2 THEN [response |-> text, last_trend |-> Trend(0, 1)]
           ELSE IF first = 0
             THEN [response |-> Raised("ZeroDivisionError"), last_trend |-> last_trend]
           ELSE [response |-> text, last_trend |-> PercentChange(first, last)]

render_historical(data, last_trend) ==
  IF Has(data, "error")
  THEN [ response |-> With(Text("historical_error"), [error_text |-> data.error]),
         last_trend |-> last_trend ]
  ELSE LET historical == Get(data, "historical_data", << >>)
           city == Get(data, "city", "the city")
           displayed_months == LastN(historical, 6)
           n == Len(displayed_months)
           first == displayed_months[1].demand
           last == IF is_partial(displayed_months) THEN displayed_months[n - 1].demand
                   ELSE displayed_months[n].demand
           text == With(Text("historical"), [city |-> city, listed |-> displayed_months])
       IN  IF historical = << >>
           THEN [ response |-> With(Text("historical_no_data"), [city |-> city]),
                  last_trend |-> last_trend ]
           ELSE IF n < 2 THEN [response |-> text, last_trend |-> last_trend]
           ELSE IF first = 0
             THEN [response |-> Raised("ZeroDivisionError"), last_trend |-> last_trend]
           ELSE [response |-> text, last_trend |-> PercentChange(first, last)]

render_ranking(intent, data) ==
  IF Has(data, "error") THEN Text("ranking_error")
  ELSE IF data.cities = << >> THEN Text("ranking_no_data")
  ELSE IF intent \in {"top_cities", "bottom_cities"}
    THEN With(Text(intent),
           [ listed |-> data.cities,
             period |-> Get(data, "period", "historical period") ])
  ELSE With(Text(intent),
         [ listed |-> Take(data.cities, 1), period |-> Get(data, "period", "historical period") ])

generate_response(intent, data, query, last_city, last_trend) ==
  LET same(response) == [response |-> response, last_trend |-> last_trend]
  IN  CASE intent = "demand_forecast" -> same(render_demand_forecast(data, last_city, last_trend))
        [] intent = "tenant_quality" -> same(render_tenant_quality(data))
        [] intent = "gap_analysis" -> same(render_gap_analysis(data))
        [] intent = "low_demand" -> same(render_low_demand(data))
        [] intent = "low_gap" -> same(render_low_gap(data))
        [] intent = "historical" -> render_historical(data, last_trend)
        [] intent \in {"top_cities", "bottom_cities", "top_city", "bottom_city"} ->
             same(render_ranking(intent, data))
        [] intent = "help" -> same(Text("help"))
        [] OTHER -> same(Text("default"))

(***************************************************************************)
(* What the collaborators answer.  The engine sees a collaborator only     *)
(* through the reply to a request, so a collaborator is a menu of replies: *)
(* the request fails ("timeout": requests raises), the service answers     *)
(* with a status other than 200 ("status"), or it answers 200 with one of  *)
(* a few bodies of the shape its handler builds.                           *)
(***************************************************************************)
timeout == Raise("HTTPConnectionPool(host='localhost', port=5001): Read timed out.")

demand_replies == {"timeout", "status", "high", "low"}
demand_reply(scenario, city, date) ==
  CASE scenario = "timeout" -> timeout
    [] scenario = "status" -> Status
    [] scenario = "high" ->
         Ok([ city |-> city, year |-> date[1], month |-> date[2],
              predicted_demand |-> 2500, confidence |-> "high" ])
    [] OTHER ->
         Ok([ city |-> city, year |-> date[1], month |-> date[2], predicted_demand |-> 1000 ])

enhanced_replies == {"timeout", "status", "rated", "unrated"}
enhanced_reply(scenario, city, date) ==
  CASE scenario = "timeout" -> timeout
    [] scenario = "status" -> Status
    [] scenario = "rated" ->
         Ok([ city |-> city,
              base_demand |-> [predicted_demand |-> 2500],
              quality_adjusted_demand |-> 2100,
              tenant_quality_analysis |->
                [ high_quality_pct |-> 40, medium_quality_pct |-> 35, high_risk_pct |-> 25,
                  average_default_risk |-> 30 ],
              investment_recommendation |-> [rating |-> "STRONG_BUY", confidence |-> 80] ])
    [] OTHER ->
         Ok([ city |-> city, year |-> date[1], month |-> date[2], predicted_demand |-> 2500 ])

gap_replies == {"timeout", "status", "empty", "one_locality", "undersupplied", "oversupplied"}
gap_reply(scenario, city) ==
  CASE scenario = "timeout" -> timeout
    [] scenario = "status" -> Status
    [] scenario = "empty" -> Ok([city |-> city, locality_data |-> << >>])
    [] scenario = "one_locality" ->
         Ok([ city |-> city,
              locality_data |-> << [locality |-> "Bandra", gap |-> 35, demand |-> 1250] >> ])
    [] scenario = "undersupplied" ->
         Ok([ city |-> city,
              locality_data |-> << [locality |-> "Bandra", gap |-> 35, demand |-> 1250],
                                   [locality |-> "Andheri", gap |-> 12, demand |-> 980] >> ])
    [] OTHER ->
         Ok([ city |-> city,
              locality_data |-> << [locality |-> "Powai", gap |-> 0 - 40, demand |-> 300],
                                   [locality |-> "Worli", gap |-> 0 - 25, demand |-> 450] >> ])

Month(month, year, demand) == [month |-> month, year |-> year, demand |-> demand]
historical_replies ==
  { "timeout", "status", "empty", "single", "rising", "falling", "zero_first",
    "eight_months", "six_from_zero", "partial", "halved_pair" }
historical_reply(scenario, city) ==
  CASE scenario = "timeout" -> timeout
    [] scenario = "status" -> Status
    [] scenario = "empty" -> Ok([city |-> city, historical_data |-> << >>])
    [] scenario = "single" ->
         Ok([city |-> city, historical_data |-> <<Month("Jul", 2022, 60000)>>])
    [] scenario = "rising" ->
         Ok([ city |-> city,
              historical_data |-> <<Month("Jun", 2022, 40000), Month("Jul", 2022, 60000)>> ])
    [] scenario = "falling" ->
         Ok([ city |-> city,
              historical_data |-> <<Month("Jun", 2022, 60000), Month("Jul", 2022, 36000)>> ])
    [] scenario = "eight_months" ->
         Ok([ city |-> city,
              historical_data |->
                << Month("Dec", 2021, 70000), Month("Jan", 2022, 30000),
                   Month("Feb", 2022, 40000), Month("Mar", 2022, 42000),
                   Month("Apr", 2022, 45000), Month("May", 2022, 50000),
                   Month("Jun", 2022, 56000), Month("Jul", 2022, 60000) >> ])
    [] scenario = "partial" ->
         Ok([ city |-> city,
              historical_data |->
                << Month("May", 2022, 40000), Month("Jun", 2022, 50000),
                   Month("Jul", 2022, 20000) >> ])
    [] scenario = "halved_pair" ->
         Ok([ city |-> city,
              historical_data |-> <<Month("Jun", 2022, 60000), Month("Jul", 2022, 20000)>> ])
    [] scenario = "six_from_zero" ->
         Ok([ city |-> city,
              historical_data |->
                << Month("Feb", 2022, 0), Month("Mar", 2022, 10000),
                   Month("Apr", 2022, 20000), Month("May", 2022, 30000),
                   Month("Jun", 2022, 40000), Month("Jul", 2022, 50000) >> ])
    [] OTHER ->
         Ok([ city |-> city,
              historical_data |-> <<Month("Jun", 2022, 0), Month("Jul", 2022, 36000)>> ])

\* GET /cities, and the four months of one city that get_city_rankings asks for.
listed_cities == <<"Mumbai", "Delhi">>
listing_replies == {"timeout", "status", "listed"}
listing_reply(scenario) ==
  CASE scenario = "timeout" -> timeout
    [] scenario = "status" -> Status
    [] OTHER -> Ok([cities |-> listed_cities])

series_replies == {"timeout", "status", "empty", "busy", "quiet"}
series_reply(scenario, city) ==
  CASE scenario = "timeout" -> timeout
    [] scenario = "status" -> Status
    [] scenario = "empty" -> Ok([city |-> city, historical_data |-> << >>])
    [] scenario = "busy" ->
         Ok([ city |-> city,
              historical_data |-> <<Month("Jun", 2022, 60000), Month("Jul", 2022, 66000)>> ])
    [] OTHER ->
         Ok([ city |-> city,
              historical_data |-> <<Month("Jun", 2022, 30000), Month("Jul", 2022, 33000)>> ])

\* The three texts random.choice draws from for a thank-you.
thank_you_responses == {1, 2, 3}


\* predict_gap of the gap service, the answer to POST /predict: ratio is the
\* prediction of the model in hundredths; without a loaded model the
\* service answers a fixed payload that has no demand_supply_status.
predict_gap(city, area_locality, ratio, loaded) ==
  IF ~loaded
  THEN [ city |-> city, area_locality |-> area_locality,
         predicted_gap_ratio |-> 10, gap_severity |-> "medium" ]
  ELSE [ city |-> city, area_locality |-> area_locality,
         predicted_gap_ratio |-> ratio,
         gap_severity |-> IF Abs(ratio) > 30 THEN "high"
                          ELSE IF Abs(ratio) > 10 THEN "medium" ELSE "low",
         demand_supply_status |-> IF ratio > 0 THEN "demand_exceeds_supply"
                                  ELSE "supply_exceeds_demand" ]
(***************************************************************************)
(* The queries of the model, and what the classifier and the extractors    *)
(* make of each: Detected tabulates detect_intent (for both values of      *)
(* has_context) and Understood the extractors, so that a turn looks the    *)
(* text up instead of matching the whole catalog again.                    *)
(***************************************************************************)
Corpus ==
  { "Hello, my name is Raj", "Hello Delhi", "thanks", "bye", "help",
    "What's the demand in Mumbai?", "And what about Delhi?", "what is the demand",
    "demand with 8% inflation", "Demand in Mumbai with 8% inflation",
    "2 BHK demand in Mumbai", "low demand in Mumbai", "oversupplied areas in Delhi",
    "historical trend in Mumbai", "tenant quality in Mumbai", "Top 5 cities",
    "pizza", "show me the trend", "gap analysis", "Pune",
    "Demand in Delhi with 8% inflation and 9% interest", "8% inflation and 9% interest",
    "What about Delhi?", "Worst cities", "top 1 city", "the city with lowest demand" }

\* The messages the two clients of the endpoint send.
Messages ==
  { "What's the demand in Mumbai?", "show me the trend", "what is the demand", "Top 5 cities",
    "show me the past in Delhi" }

\* The texts detect_intent is called with directly.  An anchored text holds,
\* between other vocabulary, a BHK mention, a rent next to an amount or
\* "average rent".
Anchors == {"2 bhk", "3BHK", "rent 35000", "rental: 12k", "15000 rent", "average rent"}
Around ==
  { <<"", "">>,
    <<"demand forecast for ", " in Mumbai">>,
    <<"top 5 cities with best tenant quality and ", "">>,
    <<"what about ", " investment risk rating">>,
    <<"hello, low demand oversupplied ", " historical trend">> }
Anchored == { around[1] \o anchor \o around[2] : anchor \in Anchors, around \in Around }
Plain ==
  { "demand forecast for Mumbai", "What about Delhi?", "show me the trend", "Top 5 cities",
    "help", "pizza", "the rent is high", "flats with 2 bedrooms in Pune",
    "show me the top 5 cities by demand", "trend of oversupplied areas",
    "help me with tenant quality in Mumbai", "help me find demand",
    "hi there, what is the demand", "thanks, goodbye",
    "Best city", "top 1 city", "the city with lowest demand", "worst city",
    "Which city has the highest demand?", "top 10 cities", "Worst cities", "Worst 10 cities" }
IntentQueries == Anchored \cup Plain

Queries == Corpus \cup Messages

\* datetime.now(), as <<year, month>>.
datetime_now == <<2026, 11>>

Detected ==
  [ q \in Queries \cup IntentQueries |-> [context \in BOOLEAN |-> classify(q, context)] ]

Understood ==
  [ q \in Queries |->
      [ city    |-> extract_city(q),
        date    |-> extract_date(q, datetime_now),
        factors |-> extract_economic_factors(q),
        name    |-> extract_name(q),
        locality |-> extract_locality(q) ] ]

detect_intent(query, last_city, last_intent) ==
  Detected[query][has_context(last_city, last_intent)]

(***************************************************************************)
(* chat: one turn.  self is the Dialogue State before the turn, env the    *)
(* replies the collaborators give to the requests of the turn (and the     *)
(* draw of random.choice).  The result is the Dialogue State after the     *)
(* turn, what chat returned (or raised) and the calls it made: each        *)
(* request sent, with the reply it got.  extract_bhk, extract_rent and     *)
(* extract_locality are also called on the way; their values reach no      *)
(* request (locality is always None) and no text.                          *)
(***************************************************************************)
small_talk == {"greeting", "thank_you", "goodbye", "help"}
ranking_intents == {"top_cities", "bottom_cities", "top_city", "bottom_city"}

\* (variant: a turn whose last request failed forgets the intent again)
Turn_undone_on_failure(self, response, calls) ==
  [ last_city |-> self.last_city,
    last_intent |-> IF calls # << >> /\ calls[Len(calls)].reply.kind # "ok"
                    THEN None ELSE self.last_intent,
    last_trend |-> self.last_trend, conversation_history |-> self.conversation_history,
    user_name |-> self.user_name, response |-> response, calls |-> calls ]

Turn(self, response, calls) ==
  [ last_city |-> self.last_city, last_intent |-> self.last_intent,
    last_trend |-> self.last_trend, conversation_history |-> self.conversation_history,
    user_name |-> self.user_name, response |-> response, calls |-> calls ]

\* One call_* method: one requests.get or requests.post, whatever its outcome.
Call(request, reply) == With(request, [reply |-> reply])
\* (variant: a call_* method that sends its request again when it failed)
SentAgainOnFailure(request, reply) ==
  IF reply.kind = "ok" THEN <<Call(request, reply)>>
  ELSE <<Call(request, reply), Call(request, reply)>>
Sent(request, reply) == <<Call(request, reply)>>

\* get_city_rankings: GET /cities, then one GET per city of the listing.
RECURSIVE city_calls(_, _)
city_calls(names, series) ==
  IF names = << >> THEN << >>
  ELSE Sent(historical_request(Head(names), 4), series[Head(names)])
         \o city_calls(Tail(names), series)
ranking_calls(listing, series) ==
  Sent(cities_request, listing)
    \o (IF listing.kind = "ok"
        THEN city_calls(Get(listing.body, "cities", << >>), series) ELSE << >>)

\* `return self.generate_response(...) + context_note': an exception leaves
\* nothing to concatenate to.
Concat(response, context_note) ==
  IF response.kind = "text" THEN With(response, [context_note |-> context_note]) ELSE response

\* (variant: a greeting that also keeps the city its text names)
get_greeting_response_locating(self, query, understood) ==
  LET name == understood.name
      city == understood.city
      user_name == IF name # None THEN name ELSE self.user_name
  IN  Turn([self EXCEPT !.user_name = user_name,
                        !.last_city = IF city # None THEN city ELSE @],
           With(Text("greeting"), [name |-> user_name, context_note |-> ""]), << >>)
get_greeting_response(self, query, understood) ==
  LET name == understood.name
      user_name == IF name # None THEN name ELSE self.user_name
  IN  Turn([self EXCEPT !.user_name = user_name],
           With(Text("greeting"), [name |-> user_name, context_note |-> ""]), << >>)

\* `if not city and self.last_city': the city of the turn and the note.
\* (variant: the last city is never taken for the city of the turn)
back_filled_never(named, last_city) == named = None /\ last_city # None /\ named = last_city
back_filled(named, last_city) == named = None /\ last_city # None
\* (variant: the note written whenever a last city is known)
context_note_whenever(named, last_city) == IF last_city # None THEN last_city ELSE ""
context_note(named, last_city) == IF back_filled(named, last_city) THEN last_city ELSE ""

\* `if not city and intent not in [...]': the turn stops at the prompt.
\* (variant: only a demand forecast stops at the prompt)
city_missing_forecast(city, intent) == city = None /\ intent = "demand_forecast"
\* (variant: an unknown intent is not asked for a city either)
city_missing_known(city, intent) ==
  city = None /\ intent \notin ranking_intents \cup {"unknown"}
city_missing(city, intent) == city = None /\ intent \notin ranking_intents
\* (variant: the context is updated before the prompt is returned)
which_city_recording(self, intent) ==
  Turn([self EXCEPT !.last_intent = intent],
       With(Text("which_city"), [cities_sample |-> Take(cities, 8), context_note |-> ""]), << >>)
which_city(self, intent) ==
  Turn(self, With(Text("which_city"), [cities_sample |-> Take(cities, 8), context_note |-> ""]),
       << >>)

\* `if economic_factors: ... if 'tenant_quality_analysis' in data'
\* (variant: the rich template for every reply to a query with factors)
upgraded_whenever(economic_factors, enhanced) == DOMAIN economic_factors # {}
upgraded(economic_factors, enhanced) ==
  DOMAIN economic_factors # {} /\ Has(enhanced, "tenant_quality_analysis")

\* What a branch of chat has when it returns: the intent it hands to
\* generate_response, the data, the requests it sent and the note it appends.
Gathered(branch, data, calls, note) ==
  [branch |-> branch, data |-> data, calls |-> calls, note |-> note]

routed ==
  { "demand_forecast", "gap_analysis", "low_demand", "low_gap", "historical",
    "tenant_quality" } \cup ranking_intents

\* The calls of the branch of chat for a routed intent; understood is what the
\* extractors return for the query.
gather(intent, city, note, env, understood) ==
  LET date == understood.date
      economic_factors == understood.factors
      ranked(top, count) ==
        LET listing == listing_reply(env.listing)
            series  == [c \in DOMAIN env.series |-> series_reply(env.series[c], c)]
        IN  Gathered(intent, get_city_rankings(top, count, listing, series),
                     ranking_calls(listing, series), "")
      gap(sort_by) ==
        LET reply == gap_reply(env.gap, city)
        IN  Gathered(intent, call_gap_api(reply), Sent(gap_request(city, sort_by), reply), note)
  IN  CASE intent = "demand_forecast" ->
             LET rich  == enhanced_reply(env.enhanced, city, date)
                 basic == demand_reply(env.demand, city, date)
                 first == IF DOMAIN economic_factors # {}
                          THEN Sent(enhanced_request(city, date, economic_factors), rich)
                          ELSE << >>
             IN  IF upgraded(economic_factors, call_enhanced_demand_api(rich))
                 THEN Gathered("tenant_quality",
                               Put(call_enhanced_demand_api(rich),
                                   "_extracted_economic_factors", economic_factors),
                               first, note)
                 ELSE Gathered(intent,
                               Put(call_demand_api(basic),
                                   "_extracted_economic_factors", economic_factors),
                               first \o Sent(demand_request(city, date, economic_factors), basic),
                               note)
        [] intent = "gap_analysis" -> gap("gap_high")
        [] intent = "low_demand" -> gap("gap_high")
        [] intent = "low_gap" -> gap("gap_low")
        [] intent = "historical" ->
             LET reply == historical_reply(env.historical, city)
             IN  Gathered(intent, call_historical_api(reply),
                          Sent(historical_request(city, 12), reply), note)
        [] intent = "tenant_quality" ->
             LET reply == enhanced_reply(env.enhanced, city, date)
             IN  Gathered(intent, call_enhanced_demand_api(reply),
                          Sent(enhanced_request(city, date, economic_factors), reply), note)
        [] intent = "top_cities" -> ranked(TRUE, 5)
        [] intent = "bottom_cities" -> ranked(FALSE, 5)
        [] intent = "top_city" -> ranked(TRUE, 1)
        [] intent = "bottom_city" -> ranked(FALSE, 1)

\* `return self.generate_response(intent, data, query) + context_note': out is
\* what generate_response returned and the last_trend it left.
returned(self, out, note, calls) ==
  Turn([self EXCEPT !.last_trend = out.last_trend], Concat(out.response, note), calls)
render(self, query, gathered) ==
  returned(self,
           generate_response(gathered.branch, gathered.data, query,
                             self.last_city, self.last_trend),
           gathered.note, gathered.calls)

\* The branch of chat for an intent that needs a collaborator, and
\* get_default_response for any other; self already holds the city and the
\* intent of the turn.
dispatch(self, intent, city, query, note, env, understood) ==
  IF intent \in routed
  THEN render(self, query, gather(intent, city, note, env, understood))
  ELSE Turn(self, With(Text("default"), [context_note |-> ""]), << >>)

\* The body of chat, given what it gets from its calls of detect_intent and of
\* the extractors: detected is Detected[query], the result of detect_intent for
\* either value of has_context, and understood is Understood[query].
respond(self, query, env, detected, understood) ==
  LET logged == [self EXCEPT !.conversation_history = Append(@, query)]
      intent == detected[has_context(self.last_city, self.last_intent)][1]
      named  == understood.city
      city   == IF back_filled(named, self.last_city) THEN self.last_city ELSE named
      note   == context_note(named, self.last_city)
  IN  IF intent = "greeting" THEN get_greeting_response(logged, query, understood)
      ELSE IF intent = "thank_you"
        THEN Turn(logged, With(Text("thank_you"), [choice |-> env.choice, context_note |-> ""]),
                  << >>)
      ELSE IF intent = "goodbye"
        THEN Turn(logged, With(Text("goodbye"), [context_note |-> ""]), << >>)
      ELSE IF intent = "help"
        THEN Turn(logged, With(Text("help"), [context_note |-> ""]), << >>)
      ELSE IF city_missing(city, intent) THEN which_city(logged, intent)
      ELSE dispatch([logged EXCEPT !.last_city = city, !.last_intent = intent],
                    intent, city, query, note, env, understood)

chat(self, query, env) == respond(self, query, env, Detected[query], Understood[query])

(***************************************************************************)
(* The replies of one turn: one reply of every collaborator the turn may   *)
(* ask, and the draw of random.choice.  A collaborator the intent never    *)
(* asks is pinned to one reply, which no turn reads.                       *)
(***************************************************************************)
Listed == { listed_cities[k] : k \in 1 .. Len(listed_cities) }
Unasked ==
  [ demand |-> "timeout", enhanced |-> "timeout", gap |-> "timeout",
    historical |-> "timeout", listing |-> "timeout",
    series |-> [c \in Listed |-> "timeout"], choice |-> 1 ]

Replies(intent, economic_factors) ==
  CASE intent = "thank_you" -> { [Unasked EXCEPT !.choice = k] : k \in thank_you_responses }
    [] intent = "demand_forecast" /\ DOMAIN economic_factors # {} ->
         { [Unasked EXCEPT !.enhanced = e, !.demand = d] :
             e \in enhanced_replies, d \in demand_replies }
    [] intent = "demand_forecast" /\ DOMAIN economic_factors = {} ->
         { [Unasked EXCEPT !.demand = d] : d \in demand_replies }
    [] intent = "tenant_quality" -> { [Unasked EXCEPT !.enhanced = e] : e \in enhanced_replies }
    [] intent \in {"gap_analysis", "low_demand", "low_gap"} ->
         { [Unasked EXCEPT !.gap = g] : g \in gap_replies }
    [] intent = "historical" -> { [Unasked EXCEPT !.historical = h] : h \in historical_replies }
    [] intent \in ranking_intents ->
         { [Unasked EXCEPT !.listing = l, !.series = s] :
             l \in listing_replies \ {"listed"}, s \in {Unasked.series} }
         \cup { [Unasked EXCEPT !.listing = "listed", !.series = s] :
                  s \in [Listed -> series_replies] }
    [] OTHER -> {Unasked}

(***************************************************************************)
(* The state.  last_city, last_intent, last_trend, conversation_history    *)
(* and user_name are the fields of the RentalPropertyChatbot instance (of  *)
(* the module-level `chatbot' when the service runs).  response and calls  *)
(* are what the last turn returned and the requests it sent.  probes       *)
(* records direct calls of detect_intent.  sessions holds, for each client *)
(* of the service, the reply to its last POST /chat next to the instance   *)
(* and the reply it would have if the service had served this client only. *)
(***************************************************************************)
VARIABLES last_city, last_intent, last_trend, conversation_history, user_name,
          response, calls, probes, sessions

dialogue == <<last_city, last_intent, last_trend, conversation_history, user_name>>
vars == <<last_city, last_intent, last_trend, conversation_history, user_name,
          response, calls, probes, sessions>>

MaxTurns == 2
MaxProbes == 2
MaxRequests == 3

Clients == {"a", "b"}
NoResponse == [kind |-> "none"]
NoReply == [status |-> 0]

\* The instance after __init__.
Constructed ==
  [ last_city |-> None, last_intent |-> None, last_trend |-> NoTrend,
    conversation_history |-> << >>, user_name |-> None ]

chatbot ==
  [ last_city |-> last_city, last_intent |-> last_intent, last_trend |-> last_trend,
    conversation_history |-> conversation_history, user_name |-> user_name ]

StateOf(turn) ==
  [ last_city |-> turn.last_city, last_intent |-> turn.last_intent,
    last_trend |-> turn.last_trend, conversation_history |-> turn.conversation_history,
    user_name |-> turn.user_name ]

Becomes(self) ==
  /\ last_city' = self.last_city
  /\ last_intent' = self.last_intent
  /\ last_trend' = self.last_trend
  /\ conversation_history' = self.conversation_history
  /\ user_name' = self.user_name

Init ==
  /\ last_city = None
  /\ last_intent = None
  /\ last_trend = NoTrend
  /\ conversation_history = << >>
  /\ user_name = None
  /\ response = NoResponse
  /\ calls = << >>
  /\ probes = << >>
  /\ sessions = [c \in Clients |->
                   [alone |-> Constructed, sent |-> 0, reply |-> NoReply, expected |-> NoReply]]

(***************************************************************************)
(* One conversation with one instance: Chat is a call of chat(query).      *)
(***************************************************************************)
Took(turn) ==
  /\ Becomes(StateOf(turn))
  /\ response' = turn.response
  /\ calls' = turn.calls

Chat(query, env) ==
  /\ Len(conversation_history) < MaxTurns
  /\ Took(chat(chatbot, query, env))
  /\ UNCHANGED <<probes, sessions>>

Next ==
  \E query \in Corpus :
    \E env \in Replies(detect_intent(query, last_city, last_intent)[1],
                       Understood[query].factors) :
      Chat(query, env)

Spec == Init /\ [][Next]_vars

(***************************************************************************)
(* detect_intent called directly, as the tests and the service do, on an   *)
(* instance that some conversation has left in one of Contexts.            *)
(***************************************************************************)
After(query, env) == StateOf(chat(Constructed, query, env))
Turns ==
  { <<"Hello, my name is Raj", Unasked>>,
    <<"Top 5 cities", Unasked>>,
    <<"What's the demand in Mumbai?", [Unasked EXCEPT !.demand = "high"]>>,
    <<"2 BHK demand in Mumbai", [Unasked EXCEPT !.gap = "undersupplied"]>>,
    <<"oversupplied areas in Delhi", [Unasked EXCEPT !.gap = "oversupplied"]>>,
    <<"historical trend in Mumbai", [Unasked EXCEPT !.historical = "rising"]>>,
    <<"tenant quality in Mumbai", [Unasked EXCEPT !.enhanced = "rated"]>>,
    <<"Pune", Unasked>> }
Contexts == {Constructed} \cup { After(turn[1], turn[2]) : turn \in Turns }

InitIntent ==
  /\ \E self \in Contexts :
       /\ last_city = self.last_city
       /\ last_intent = self.last_intent
       /\ last_trend = self.last_trend
       /\ conversation_history = self.conversation_history
       /\ user_name = self.user_name
  /\ response = NoResponse
  /\ calls = << >>
  /\ probes = << >>
  /\ sessions = [c \in Clients |->
                   [alone |-> Constructed, sent |-> 0, reply |-> NoReply, expected |-> NoReply]]

\* (variant: detect_intent keeps the intent it found in self.last_intent)
DetectIntentRecording(query) ==
  /\ Len(probes) < MaxProbes
  /\ probes' = Append(probes, [ query |-> query, last_city |-> last_city,
                                last_intent |-> last_intent,
                                result |-> detect_intent(query, last_city, last_intent) ])
  /\ last_intent' = detect_intent(query, last_city, last_intent)[1]
  /\ UNCHANGED <<last_city, last_trend, conversation_history, user_name,
                 response, calls, sessions>>

\* A call of detect_intent(query): it assigns no attribute of self.
DetectIntent(query) ==
  /\ Len(probes) < MaxProbes
  /\ probes' = Append(probes, [ query |-> query, last_city |-> last_city,
                                last_intent |-> last_intent,
                                result |-> detect_intent(query, last_city, last_intent) ])
  /\ UNCHANGED <<last_city, last_intent, last_trend, conversation_history, user_name,
                 response, calls, sessions>>

NextIntent == \E query \in IntentQueries : DetectIntent(query)

SpecIntent == InitIntent /\ [][NextIntent]_vars

(***************************************************************************)
(* The chat service: POST /chat, served by the one module-level instance   *)
(* for every client.  data is the JSON body of the request.  The handler   *)
(* answers 400 to a body without a message, an empty or a long message;    *)
(* else it calls chat, then detect_intent and the extractors once more on  *)
(* the instance as chat left it; an exception anywhere becomes a 500.      *)
(***************************************************************************)
max_message_length == 500
Five(s) == s \o s \o s \o s \o s
long_message == Five(Five(Five("xxxx"))) \o "x"
Bodies ==
  { [message |-> m] : m \in Messages \cup {"", "   ", long_message} } \cup { << >> }

\* len(message.strip()) == 0
blank(message) == \A i \in 1 .. Len(message) : CharAt(message, i) \in Space

Rejected(self, error) ==
  [ self |-> self, response |-> NoResponse, calls |-> << >>,
    reply |-> [status |-> 400, error |-> error] ]

\* The handler once chatbot.chat(message) returned turn: detect_intent,
\* extract_city and extract_locality are called on the instance as chat left
\* it.  detected is Detected[message] and understood is Understood[message].
answer(turn, detected, understood) ==
  LET seen == detected[has_context(turn.last_city, turn.last_intent)]
      found == [city |-> understood.city, locality |-> understood.locality]
      entities == [ k \in { f \in DOMAIN found : found[f] # None } |-> found[k] ]
  IN  [ self |-> StateOf(turn), response |-> turn.response, calls |-> turn.calls,
        reply |-> IF turn.response.kind = "exception"
                  THEN [ status |-> 500, error |-> "Internal server error",
                         message |-> turn.response.error ]
                  ELSE [ status |-> 200, response |-> turn.response, intent |-> seen[1],
                         confidence |-> seen[2], entities |-> entities ] ]

serve(self, data, env) ==
  IF DOMAIN data = {} \/ ~Has(data, "message")
    THEN Rejected(self, "Missing 'message' in request body")
  ELSE IF data.message = "" \/ blank(data.message)
    THEN Rejected(self, "Message cannot be empty")
  ELSE IF Len(data.message) > max_message_length
    THEN Rejected(self, "Message too long (max 500 characters)")
  ELSE answer(chat(self, data.message, env),
              Detected[data.message], Understood[data.message])

Served == LET a == CHOOSE c \in Clients : TRUE
          IN  sessions[a].sent + sessions[CHOOSE c \in Clients \ {a} : TRUE].sent

\* shared is what the module-level instance made of the request, and own what
\* an instance serving this client only would have made of it.
Answered(client, shared, own) ==
  /\ Becomes(shared.self)
  /\ response' = shared.response
  /\ calls' = shared.calls
  /\ sessions' = [sessions EXCEPT ![client] =
                    [ alone |-> own.self, sent |-> @.sent + 1,
                      reply |-> shared.reply, expected |-> own.reply ]]

Post(client, data, env) ==
  /\ Served < MaxRequests
  /\ Answered(client, serve(chatbot, data, env), serve(sessions[client].alone, data, env))
  /\ UNCHANGED probes

\* The replies a request may meet: those of the turn the instance makes of
\* it, and those of the turn the client's own conversation would make.
RepliesTo(self, data) ==
  IF Has(data, "message") /\ data.message \in Messages
  THEN Replies(detect_intent(data.message, self.last_city, self.last_intent)[1],
               Understood[data.message].factors)
  ELSE {Unasked}

NextServer ==
  \E client \in DOMAIN sessions, data \in Bodies :
    \E env \in RepliesTo(chatbot, data) \cup RepliesTo(sessions[client].alone, data) :
      Post(client, data, env)

SpecServer == Init /\ [][NextServer]_vars


(***************************************************************************)
(* extract_rent called directly, as test_parameter_extraction does.  It    *)
(* reads no attribute of the instance and assigns none.                    *)
(***************************************************************************)
RentQueries ==
  { "rent 35000", "35k rent", "35000", "2000 bhk", "rent 35000 in Delhi", "average rent 50k",
    "3 BHK and 50k rent", "rent: 35,000", "Rent 35K", "rent 4000", "rent 600000",
    "500000 rent", "5000", "500000", "12345", "0035", "45000 bhk", "2k bhk", "2 BHK in Mumbai" }

ExtractRent(query) ==
  /\ Len(probes) < MaxProbes
  /\ probes' = Append(probes, [query |-> query, result |-> extract_rent(query)])
  /\ UNCHANGED <<last_city, last_intent, last_trend, conversation_history, user_name,
                 response, calls, sessions>>

NextRent == \E query \in RentQueries : ExtractRent(query)

SpecRent == Init /\ [][NextRent]_vars

(***************************************************************************)
(* The single-locality analysis: call_gap_api with a locality returns the  *)
(* body of POST /predict, and generate_response('gap_analysis', ...)       *)
(* renders a payload that has no locality_data.                            *)
(***************************************************************************)
GapPayloads ==
  { predict_gap(city, area_locality, ratio, loaded) :
      city \in {"Mumbai", "Delhi"}, area_locality \in {"Area 191", "Bandra"},
      ratio \in {0 - 40, 0 - 20, 0 - 5, 0, 5, 20, 40}, loaded \in BOOLEAN }

Render(data) ==
  /\ Len(probes) < MaxProbes
  /\ probes' = Append(probes,
                 [ data |-> data,
                   result |-> generate_response("gap_analysis", data, "query",
                                                last_city, last_trend).response ])
  /\ UNCHANGED <<last_city, last_intent, last_trend, conversation_history, user_name,
                 response, calls, sessions>>

NextRender == \E data \in GapPayloads : Render(data)

SpecRender == Init /\ [][NextRender]_vars
(***************************************************************************)
(* The vocabulary of the properties.  A step of Spec is one turn: TheQuery *)
(* is its query, TheIntent what detect_intent makes of it in the state     *)
(* before, Named the city the query names, Factors its economic factors.   *)
(***************************************************************************)
ATurn == Len(conversation_history') = Len(conversation_history) + 1
TheQuery == conversation_history'[Len(conversation_history')]
TheIntent == detect_intent(TheQuery, last_city, last_intent)[1]
Named == Understood[TheQuery].city
Factors == Understood[TheQuery].factors
Returns(template) == response'.kind = "text" /\ response'.template = template
Returned(template) == response.kind = "text" /\ response.template = template
Paths(log) == [k \in 1 .. Len(log) |-> log[k].path]
Failed(call) == call.reply.kind # "ok"
Rated(call) == call.reply.kind = "ok" /\ "tenant_quality_analysis" \in DOMAIN call.reply.body
Request(call) == [k \in DOMAIN call \ {"reply"} |-> call[k]]
CityScoped ==
  {"demand_forecast", "gap_analysis", "low_demand", "low_gap", "historical", "tenant_quality"}
Enhanced == "POST /predict/enhanced"
Basic == "POST /predict"

\* C1 as stated: every turn ends by returning a string; no turn ends in an
\* uncaught exception, whatever the collaborators reply.
C1_EveryTurnReturnsAString == response.kind # "exception"

\* C1, what the code does: a turn ends in an exception only in two cases,
\* a low_demand turn whose locality list is empty (IndexError) and a
\* historical turn of two or more months whose first shown month has demand
\* 0 (ZeroDivisionError); both after the state was updated.
C1_RaisesOnEmptyListOrZeroDemand ==
  response.kind = "exception" =>
    /\ Len(calls) = 1 /\ calls[1].reply.kind = "ok"
    /\ last_city = calls[1].city
    /\ \/ /\ last_intent = "low_demand" /\ response.error = "IndexError"
          /\ calls[1].reply.body.locality_data = << >>
       \/ /\ last_intent = "historical" /\ response.error = "ZeroDivisionError"
          /\ Len(calls[1].reply.body.historical_data) >= 2
          /\ LastN(calls[1].reply.body.historical_data, 6)[1].demand = 0
C1_Witness == response.kind = "exception" /\ response.error = "IndexError"

\* C2: a turn whose intent is neither small talk nor a ranking, whose query
\* names no city, taken while last_city is null, returns the which-city
\* prompt and calls no collaborator.
C2_PromptWithoutCalls ==
  [][ (/\ ATurn
       /\ TheIntent \notin small_talk \cup ranking_intents
       /\ Named = None /\ last_city = None)
      => (Returns("which_city") /\ calls' = << >>) ]_vars
C2_Witness ==
  /\ Returned("which_city") /\ calls = << >>
  /\ conversation_history = <<"gap analysis">>

\* C3 as stated: a turn that ends with the which-city prompt leaves the whole
\* Dialogue State, the list of past queries included, as it was.
C3_PromptLeavesStateUntouched ==
  [][ (ATurn /\ Returns("which_city")) => UNCHANGED dialogue ]_vars

\* C3, amended: a turn that ends with the which-city prompt leaves last_city,
\* last_intent, last_trend and user_name as they were, and appends its query
\* to the list of past queries.
C3_PromptKeepsContextAndLogsQuery ==
  [][ (ATurn /\ Returns("which_city"))
      => /\ UNCHANGED <<last_city, last_intent, last_trend, user_name>>
         /\ conversation_history' = Append(conversation_history, TheQuery) ]_vars
C3_Witness ==
  /\ Returned("which_city")
  /\ last_intent = "top_cities" /\ Len(conversation_history) = 2

\* C4: for a query with a BHK mention, a rent next to an amount or "average
\* rent", detect_intent returns gap_analysis (so never demand_forecast),
\* whatever else the query says and whatever last_city and last_intent hold.
C4_AnchoredIsGapAnalysis ==
  \A k \in 1 .. Len(probes) :
    probes[k].query \in Anchored => probes[k].result[1] = "gap_analysis"
C4_Witness ==
  \E k \in 1 .. Len(probes) :
    /\ probes[k].query = "demand forecast for 2 bhk in Mumbai"
    /\ probes[k].last_intent = "demand_forecast"
    /\ probes[k].result = <<"gap_analysis", 95>>

C6_EachClientServedAlone ==
  \A c \in Clients : sessions[c].sent > 0 => sessions[c].reply = sessions[c].expected
C6_Witness ==
  \E c \in Clients :
    /\ sessions[c].reply.status = 200 /\ sessions[c].expected.status = 200
    /\ sessions[c].reply.response.template = "demand_forecast"
    /\ sessions[c].reply.response.context_note = "Mumbai"
    /\ sessions[c].expected.response.template = "which_city"

\* C7 as stated: a turn classified demand_forecast whose query has economic
\* factors calls the enhanced collaborator first; with tenant_quality_analysis
\* in its payload the turn renders the tenant_quality template and makes no
\* other call, else it calls the plain demand collaborator and renders the
\* demand_forecast branch.  Without factors it never calls the enhanced one.
C7_Dispatch ==
  IF DOMAIN Factors # {}
  THEN /\ calls' # << >> /\ calls'[1].path = Enhanced
       /\ IF Rated(calls'[1])
          THEN Returns("tenant_quality") /\ Paths(calls') = <<Enhanced>>
          ELSE /\ Paths(calls') = <<Enhanced, Basic>>
               /\ Returns("demand_forecast") \/ Returns("demand_forecast_error")
  ELSE \A k \in 1 .. Len(calls') : calls'[k].path # Enhanced
C7_EveryForecastTurnDispatches ==
  [][ (ATurn /\ TheIntent = "demand_forecast") => C7_Dispatch ]_vars

\* C7, amended: the same, for a demand_forecast turn that has a city (named
\* by the query or kept in last_city); a demand_forecast turn without a city
\* ends with the which-city prompt and calls nothing, factors or not.
C7_ForecastTurnWithCityDispatches ==
  [][ (ATurn /\ TheIntent = "demand_forecast")
      => IF Named # None \/ last_city # None THEN C7_Dispatch
         ELSE Returns("which_city") /\ calls' = << >> ]_vars
C7_Witness ==
  /\ Len(calls) = 2 /\ Paths(calls) = <<Enhanced, Basic>>
  /\ ~Rated(calls[1]) /\ calls[1].reply.kind = "ok"
  /\ Returned("demand_forecast")

\* C8 as stated: the response a turn returns after resolving a city carries
\* the context note whenever the city was back-filled from last_city and
\* never when the query names a city; a named city replaces last_city.
C8_NoteWheneverBackFilled ==
  [][ (ATurn /\ TheIntent \notin small_talk /\ response'.kind = "text")
      => /\ (Named = None /\ last_city # None) => response'.context_note = last_city
         /\ Named # None => (response'.context_note = "" /\ last_city' = Named) ]_vars

\* C8, amended: a turn that returns a text carries the note exactly when its
\* intent is one of the six city-scoped intents and the city was back-filled
\* from last_city; ranking turns and unknown-intent turns carry no note even
\* when last_city is kept for them.  A city the query names replaces
\* last_city, and after last_city = Mumbai, last_intent = demand_forecast
\* the query "And what about Delhi?" is a demand_forecast for Delhi, no note.
C8_NoteOnlyOnCityScopedBackFill ==
  [][ (ATurn /\ TheIntent \notin small_talk)
      => /\ response'.kind = "text"
              => response'.context_note =
                   IF TheIntent \in CityScoped /\ Named = None /\ last_city # None
                   THEN last_city ELSE ""
         /\ Named # None => last_city' = Named
         /\ Named = None => last_city' = last_city
         /\ (/\ last_city = "Mumbai" /\ last_intent = "demand_forecast"
             /\ TheQuery = "And what about Delhi?")
              => /\ last_intent' = "demand_forecast" /\ last_city' = "Delhi"
                 /\ calls'[1].city = "Delhi"
                 /\ response'.context_note = "" ]_vars
C8_Witness ==
  /\ response.kind = "text" /\ response.context_note = "Mumbai"
  /\ conversation_history = <<"What's the demand in Mumbai?", "what is the demand">>

\* C9: a greeting, thank_you, goodbye or help turn returns its canned text,
\* calls no collaborator, resolves no city (last_city stays even if the text
\* names one), leaves last_intent and last_trend alone and appends its query
\* to the history; user_name changes only in a greeting whose text holds a
\* self-introduction, to the name introduced.
C9_SmallTalkFrame ==
  [][ (ATurn /\ TheIntent \in small_talk)
      => /\ Returns(TheIntent)
         /\ calls' = << >>
         /\ UNCHANGED <<last_city, last_intent, last_trend>>
         /\ conversation_history' = Append(conversation_history, TheQuery)
         /\ user_name' # user_name
              => /\ TheIntent = "greeting"
                 /\ Understood[TheQuery].name # None
                 /\ user_name' = Understood[TheQuery].name ]_vars
C9_Witness ==
  /\ Returned("greeting") /\ user_name = "Raj"
  /\ last_city = "Mumbai" /\ last_intent = "historical" /\ last_trend.known

\* C10 as stated: a turn makes a single collaborator attempt, and a failed
\* attempt is rendered as the fallback response of the branch.
ErrorTexts ==
  { "demand_forecast_error", "tenant_quality_error", "gap_analysis_error",
    "low_demand_error", "low_gap_error", "historical_error", "ranking_error" }
C10_SingleAttemptPerTurn ==
  [][ ATurn => /\ Len(calls') <= 1
               /\ (calls' # << >> /\ Failed(calls'[1]))
                    => (response'.kind = "text" /\ response'.template \in ErrorTexts) ]_vars

\* C10, amended: no request is sent twice in a turn.  A turn makes at most
\* one call, but for a demand_forecast turn with factors whose enhanced reply
\* has no tenant_quality_analysis (a failed one included), which then calls
\* the plain demand collaborator, and for a ranking turn, which after a
\* listing that succeeded asks once for each listed city.  When the last call
\* of a city-scoped turn, or the listing of a ranking turn, fails, the turn
\* returns the fallback text of its branch.
C10_NoRequestRepeated ==
  [][ ATurn
      => /\ \A i, j \in 1 .. Len(calls') :
              i # j => Request(calls'[i]) # Request(calls'[j])
         /\ Len(calls') > 1
              => \/ /\ TheIntent = "demand_forecast" /\ DOMAIN Factors # {}
                    /\ Paths(calls') = <<Enhanced, Basic>> /\ ~Rated(calls'[1])
                 \/ /\ TheIntent \in ranking_intents
                    /\ calls'[1].path = "GET /cities" /\ ~Failed(calls'[1])
                    /\ Len(calls') = 1 + Len(calls'[1].reply.body.cities)
                    /\ \A k \in 2 .. Len(calls') :
                         /\ calls'[k].path = "GET /historical"
                         /\ calls'[k].city = calls'[1].reply.body.cities[k - 1]
         /\ (/\ TheIntent \in CityScoped /\ calls' # << >>
             /\ Failed(calls'[Len(calls')]))
              => (response'.kind = "text" /\ response'.template \in ErrorTexts)
         /\ (TheIntent \in ranking_intents /\ Failed(calls'[1]))
              => (Returns("ranking_error") /\ Len(calls') = 1) ]_vars
C10_Witness ==
  /\ Len(calls) = 2 /\ Paths(calls) = <<Enhanced, Basic>>
  /\ Failed(calls[1]) /\ Failed(calls[2])
  /\ Returned("demand_forecast_error")

(***************************************************************************)
(* Failed collaborators.  After a turn that called a collaborator,         *)
(* last_intent is the intent of that turn and last_city its city.  The     *)
(* turn rendered an api_result with the key 'error' when the last call of  *)
(* a city-scoped turn failed, or the one call of a ranking turn.           *)
(***************************************************************************)
ErrorStrings ==
  { timeout.text, "API request failed", "Enhanced API request failed", "Failed to fetch cities" }
RenderedError ==
  /\ calls # << >> /\ Failed(calls[Len(calls)])
  /\ last_intent \in ranking_intents => Len(calls) = 1
\* What the turn would have returned for the payload {'error': error}.
FallbackFor(error) ==
  Concat(generate_response(last_intent, [error |-> error], "", last_city, last_trend).response,
         response.context_note)

\* C11 as stated: the response to an api_result with the key 'error' is a
\* fallback that holds nothing of the error string; payloads that differ in
\* the error string only give the same response.
C11_FallbackHidesErrorString ==
  RenderedError => \A error \in ErrorStrings : FallbackFor(error) = response

\* C11, what the code does: the fallback of the demand_forecast, gap_analysis,
\* low_demand, low_gap and ranking branches is the same for every error
\* string; the fallback of the tenant_quality and of the historical branch
\* ends with the error string of the payload.
C11_TwoBranchesQuoteErrorString ==
  RenderedError =>
    IF last_intent \in {"tenant_quality", "historical"}
    THEN /\ response.error_text \in ErrorStrings
         /\ \A error \in ErrorStrings :
              FallbackFor(error) = response <=> error = response.error_text
    ELSE \A error \in ErrorStrings : FallbackFor(error) = response
C11_Witness ==
  /\ Returned("historical_error") /\ response.error_text = timeout.text
  /\ calls[1].reply = timeout

\* C12: every request to POST /predict and POST /predict/enhanced carries the
\* three keys inflation_rate, interest_rate and employment_rate, each with the
\* value extract_economic_factors found in the query, or 6.5, 7.0 and 85.0
\* (650, 700 and 8500 hundredths) where it found none.  The result of
\* extract_economic_factors has a key only for a factor whose word is in the
\* query, is empty for a query without one, and is {inflation_rate: 8.0,
\* interest_rate: 9.0} for "8% inflation and 9% interest".
FactorWords ==
  [ inflation_rate |-> "inflation", interest_rate |-> "interest",
    employment_rate |-> "employment" ]
C12_RequestsCarryFoundOrDefault ==
  [][ ATurn
      => /\ \A k \in 1 .. Len(calls') :
              calls'[k].path \in {Basic, Enhanced}
              => /\ DOMAIN calls'[k].economic_factors = DOMAIN FactorWords
                 /\ \A f \in DOMAIN FactorWords :
                      calls'[k].economic_factors[f] =
                        IF f \in DOMAIN Factors THEN Factors[f]
                        ELSE [ inflation_rate |-> 650, interest_rate |-> 700,
                               employment_rate |-> 8500 ][f]
         /\ \A f \in DOMAIN Factors :
              f \in DOMAIN FactorWords /\ Contains(ToLower(TheQuery), FactorWords[f])
         /\ TheQuery = "8% inflation and 9% interest"
              => Factors = [inflation_rate |-> 800, interest_rate |-> 900]
         /\ TheQuery = "What's the demand in Mumbai?" => Factors = << >> ]_vars
C12_Witness ==
  /\ Paths(calls) = <<Enhanced, Basic>>
  /\ calls[2].economic_factors =
       [inflation_rate |-> 800, interest_rate |-> 900, employment_rate |-> 8500]
  /\ conversation_history = <<"8% inflation and 9% interest", 
                              "Demand in Delhi with 8% inflation and 9% interest">>

\* C13 as stated: a turn whose query detect_intent calls unknown returns the
\* default response, the one that lists example phrasings, and calls no
\* collaborator.
C13_UnknownGetsDefault ==
  [][ (ATurn /\ TheIntent = "unknown") => (Returns("default") /\ calls' = << >>) ]_vars

\* C13, amended: a turn whose query detect_intent calls unknown calls no
\* collaborator; it returns the default response when the query names a city
\* or last_city holds one, without the context note, and the which-city
\* prompt when there is no city at all.
C13_UnknownGetsDefaultOrPrompt ==
  [][ (ATurn /\ TheIntent = "unknown")
      => /\ calls' = << >>
         /\ IF Named # None \/ last_city # None
            THEN /\ Returns("default") /\ response'.context_note = ""
                 /\ last_intent' = "unknown"
            ELSE Returns("which_city") /\ UNCHANGED <<last_city, last_intent>> ]_vars
C13_Witness ==
  /\ Returned("default") /\ last_intent = "unknown" /\ last_city = "Mumbai"
  /\ conversation_history = <<"What's the demand in Mumbai?", "pizza">>

(***************************************************************************)
(* The wording of the locality lists.  The words of a gap_analysis list    *)
(* are its heading and its interpretation sentence; the lines between them *)
(* hold names and numbers only.                                            *)
(***************************************************************************)
Listing == Returned("gap_analysis_list") /\ response.areas # << >>
AllGaps(areas, positive) ==
  \A k \in 1 .. Len(areas) : IF positive THEN areas[k].gap > 0 ELSE areas[k].gap < 0
\* s in lower case, halving a long text.
RECURSIVE Lowered(_)
Lowered(s) ==
  IF Len(s) <= 8 THEN ToLower(s)
  ELSE Lowered(SubSeq(s, 1, Len(s) \div 2)) \o Lowered(SubSeq(s, Len(s) \div 2 + 1, Len(s)))
ListWords == Lowered(response.heading \o " " \o response.interpretation)

\* C14 as stated: the gap_analysis list describes localities whose gaps are
\* positive as undersupplied and localities whose gaps are negative as
\* oversupplied.
C14_ListNamesSignOfGaps ==
  Listing =>
    /\ AllGaps(response.areas, TRUE) => Contains(ListWords, "undersupplied")
    /\ AllGaps(response.areas, FALSE) =>
         Contains(ListWords, "oversupplied") /\ ~Contains(ListWords, "undersupplied")

\* C14, what the code does: the heading of the list calls the areas
\* undersupplied whatever the sign of the gaps, and the list never says
\* oversupplied; only the interpretation sentence follows the average gap.
C14_ListHeadingIsFixed ==
  Listing =>
    /\ Contains(ListWords, "undersupplied") /\ ~Contains(ListWords, "oversupplied")
    /\ AllGaps(response.areas, FALSE) /\ response.severity # "low" =>
         Contains(ListWords, "supply exceeding demand")
    /\ AllGaps(response.areas, TRUE) /\ response.severity # "low" =>
         Contains(ListWords, "demand exceeding supply")

C14_Witness ==
  /\ Listing /\ AllGaps(response.areas, FALSE)
  /\ last_intent = "gap_analysis" /\ last_city = "Mumbai"
  /\ conversation_history = <<"What's the demand in Mumbai?", "gap analysis">>

\* The locality list the gap collaborator answered in a low_demand or a
\* low_gap turn.
Localities == calls[1].reply.body.locality_data
ListedLow ==
  /\ last_intent \in {"low_demand", "low_gap"}
  /\ calls # << >> /\ ~Failed(calls[1]) /\ "locality_data" \in DOMAIN calls[1].reply.body
NoneNegative(localities) == \A k \in 1 .. Len(localities) : localities[k].gap >= 0

HistoricalTurn ==
  /\ ATurn /\ last_intent' = "historical"
  /\ calls' # << >> /\ ~Failed(calls'[1])
  /\ calls'[1].reply.body.historical_data # << >>
Series == calls'[1].reply.body.historical_data
Shown ==
  LET start == IF Len(Series) > 6 THEN Len(Series) - 5 ELSE 1
  IN  [k \in 1 .. Len(Series) - start + 1 |-> Series[start + k - 1]]
StrictlyIncreasing(series) ==
  \A k \in 1 .. Len(series) - 1 : series[k].demand < series[k + 1].demand
Positive(trend) == trend.known /\ trend.num > 0 /\ trend.den > 0

\* C16 as stated: a historical turn whose collaborator answers a series
\* returns the list of the last six entries in the order of the series, and
\* when these are six months of strictly increasing demand the trend it
\* stores in last_trend is positive.
C16_ListsLastSixAndTrendSign ==
  [][ HistoricalTurn =>
        /\ Returns("historical") /\ response'.listed = Shown
        /\ Len(Shown) = 6 /\ StrictlyIncreasing(Shown) => Positive(last_trend')
    ]_vars

\* C16, what the code does: the same, unless two or more months are shown and
\* the first of them has demand 0; the turn then ends in ZeroDivisionError,
\* lists nothing and leaves last_trend as it was.
C16_ListsLastSixUnlessFirstIsZero ==
  [][ HistoricalTurn =>
        IF Len(Shown) >= 2 /\ Shown[1].demand = 0
        THEN response' = Raised("ZeroDivisionError") /\ last_trend' = last_trend
        ELSE /\ Returns("historical") /\ response'.listed = Shown
             /\ Len(Shown) = 6 /\ StrictlyIncreasing(Shown) =>
                  /\ Positive(last_trend')
                  /\ last_trend'.num * Shown[1].demand =
                       (Shown[6].demand - Shown[1].demand) * 100 * last_trend'.den
    ]_vars

C16_Witness ==
  /\ Returned("historical") /\ Len(response.listed) = 6
  /\ Len(calls[1].reply.body.historical_data) = 8
  /\ response.listed[1] = Month("Feb", 2022, 40000)
  /\ response.listed[6] = Month("Jul", 2022, 60000)
  /\ last_trend = Trend(50, 1)
  /\ conversation_history = <<"historical trend in Mumbai">>

(***************************************************************************)
(* extract_rent.  A bare amount is a text of four or more digits and       *)
(* nothing else.  A result is << >> (None) or <<rent>>.                    *)
(***************************************************************************)
BareAmounts == { q \in RentQueries : Len(q) >= 4 /\ \A i \in 1 .. Len(q) : CharAt(q, i) \in Digit }
RentRange == 5000 .. 500000
RentRangeAndExamples(probe) ==
  /\ probe.result = << >> \/ (Len(probe.result) = 1 /\ probe.result[1] \in RentRange)
  /\ probe.query \in {"rent 35000", "35k rent"} => probe.result = <<35000>>
  /\ probe.query = "2000 bhk" => probe.result = << >>

\* C17 as stated: extract_rent returns None or an integer in 5,000..500,000;
\* 35000 for 'rent 35000' and for '35k rent'; None for '2000 bhk'; and for a
\* bare number of 4+ digits with no rent keyword (such as '35000') the
\* amount that is written.
C17_BareAmountIsReturned ==
  \A k \in 1 .. Len(probes) :
    /\ RentRangeAndExamples(probes[k])
    /\ probes[k].query \in BareAmounts /\ ParseInt(probes[k].query) \in RentRange =>
         probes[k].result = <<ParseInt(probes[k].query)>>

\* C17, what the code does: the range and the three examples hold, but a
\* bare number is read as thousands (the text of the last pattern holds a
\* 'k', in 'bhk'), so '35000' is read as 35,000,000 and rejected; a bare
\* number gives a rent only when a thousand times it lies in the range.
C17_BareAmountIsMultiplied ==
  \A k \in 1 .. Len(probes) :
    /\ RentRangeAndExamples(probes[k])
    /\ probes[k].query \in BareAmounts =>
         probes[k].result = IF 1000 * ParseInt(probes[k].query) \in RentRange
                            THEN <<1000 * ParseInt(probes[k].query)>> ELSE << >>

C17_Witness ==
  /\ Len(probes) = 2
  /\ probes[1] = [query |-> "35000", result |-> << >>]
  /\ probes[2] = [query |-> "rent 35000", result |-> <<35000>>]

(***************************************************************************)
(* The stages of detect_intent, seen from its results.  Alone(query) is    *)
(* what the priority and the general stage give by themselves, which is    *)
(* the result on an instance without context.  A priority override         *)
(* returns a confidence of 0.9 or more and the general stage 0.8, 0.6 or   *)
(* 0, so Alone(query)[2] >= 90 says that a priority override fires.        *)
(***************************************************************************)
Alone(query) == detect_intent(query, None, None)
InContext(probe) == probe.last_city # None /\ probe.last_intent # None
Continuations(query) ==
  { k \in 1 .. Len(follow_up_patterns) :
      AnyPattern(follow_up_patterns[k][2], Strip(ToLower(query))) }

\* C18: detect_intent consults the follow-up patterns only when last_city and
\* last_intent are both set and no priority override fires; a follow-up match
\* then gives the first follow-up intent that matches with confidence 0.9 and
\* not the result of the general patterns; in every other case the result is
\* the one the priority and general stages alone give.
C18_FollowUpNeedsContextAfterPriority ==
  \A k \in 1 .. Len(probes) :
    IF /\ InContext(probes[k]) /\ Alone(probes[k].query)[2] < 90
       /\ Continuations(probes[k].query) # {}
    THEN probes[k].result =
           <<follow_up_patterns[First(Continuations(probes[k].query))][1], 90>>
    ELSE probes[k].result = Alone(probes[k].query)

C18_Witness ==
  /\ Len(probes) = 2
  /\ last_city = "Mumbai" /\ last_intent = "tenant_quality"
  /\ probes[1].query = "show me the trend" /\ probes[1].result = <<"historical", 90>>
  /\ Alone("show me the trend") = <<"unknown", 0>>
  /\ probes[2].query = "show me the top 5 cities by demand"
  /\ Continuations(probes[2].query) # {} /\ probes[2].result = <<"top_cities", 95>>

\* The intents of the catalog, by place in its order, that have a pattern
\* matching the query.
Matching(query) ==
  { k \in 1 .. Len(intent_patterns) :
      AnyPattern(intent_patterns[k][2], Strip(ToLower(query))) }
NotHelp(query) == { k \in Matching(query) : intent_patterns[k][1] # "help" }

BareContinuation ==
  /\ ATurn /\ TheQuery = "What about Delhi?"
  /\ last_intent = "gap_analysis" /\ last_city # None

\* C20 as stated: the continuation inherits the intent of the turn before;
\* it is answered as gap analysis for Delhi.
C20_ContinuationInheritsGapAnalysis ==
  [][ BareContinuation =>
        /\ last_intent' = "gap_analysis" /\ last_city' = "Delhi"
        /\ Len(calls') = 1 /\ calls'[1].to = "gap" /\ calls'[1].city = "Delhi"
    ]_vars

\* C20, what the code does: 'what about' is a follow-up pattern of
\* demand_forecast, the first intent of follow_up_patterns, so the
\* continuation is answered as a demand forecast for Delhi whatever the
\* intent of the turn before; no request goes to the gap collaborator.
C20_ContinuationIsDemandForecast ==
  [][ BareContinuation =>
        /\ TheIntent = "demand_forecast" /\ last_intent' = "demand_forecast"
        /\ last_city' = "Delhi"
        /\ Paths(calls') = <<Basic>> /\ calls'[1].city = "Delhi"
        /\ response'.template \in {"demand_forecast", "demand_forecast_error"}
    ]_vars

C20_Witness ==
  /\ conversation_history = <<"2 BHK demand in Mumbai", "What about Delhi?">>
  /\ last_intent = "demand_forecast" /\ last_city = "Delhi"
  /\ Returned("demand_forecast") /\ Paths(calls) = <<Basic>>

(***************************************************************************)
(* The trend sentence of a demand forecast.  A turn that returns the       *)
(* demand_forecast text has last_city' as its city; last_city and          *)
(* last_trend are the fields the turn found.                               *)
(***************************************************************************)
Forecast == ATurn /\ Returns("demand_forecast")
TrendSentences == {"recovery", "continuation", "growth"}
Beyond(trend) ==
  trend.known /\ (trend.num < (0 - 20) * trend.den \/ trend.num > 20 * trend.den)

\* C21 as stated: a demand forecast has a trend sentence only when the trend
\* was stored by a historical turn about the city of the forecast; a
\* forecast for another city than the one the conversation was about has
\* no trend sentence.
C21_TrendSentenceForSameCityOnly ==
  [][ Forecast /\ response'.trend \in TrendSentences => last_city' = last_city ]_vars

\* C21, what the code does: chat stores the city of the turn in last_city
\* before it renders, so the comparison of last_city with the city of the
\* forecast always succeeds; the trend sentence depends on the stored trend
\* alone, whatever city it was computed for.
C21_TrendSentenceWhateverCity ==
  [][ Forecast /\ response'.city = last_city' =>
        (response'.trend \in TrendSentences <=> Beyond(last_trend))
    ]_vars

C21_Witness ==
  /\ conversation_history = <<"historical trend in Mumbai", "What about Delhi?">>
  /\ last_city = "Delhi" /\ last_trend = Trend(50, 1)
  /\ Returned("demand_forecast") /\ response.city = "Delhi" /\ response.trend = "growth"

(***************************************************************************)
(* The stored trend.  A trend is the fraction num / den of a percentage.   *)
(***************************************************************************)
Rendered == HistoricalTurn /\ Returns("historical") /\ Len(Shown) >= 2
IsChange(trend, first, last) ==
  trend.known /\ trend.den > 0 /\ trend.num * first = (last - first) * 100 * trend.den
Halved == 2 * Shown[Len(Shown)].demand < Shown[Len(Shown) - 1].demand

\* C22 as stated: the stored trend is the percent change from the first to
\* the last displayed month, with the second-to-last month in place of the
\* last whenever the last is less than half of it.
C22_PartialWheneverHalved ==
  [][ Rendered =>
        IsChange(last_trend', Shown[1].demand,
                 IF Halved THEN Shown[Len(Shown) - 1].demand ELSE Shown[Len(Shown)].demand)
    ]_vars

\* C22, amended: the second-to-last month replaces the last only when three
\* or more months are displayed; with two months the trend is the change
\* from the first to the last even when the last is less than half.
C22_PartialOnlyOfThreeOrMore ==
  [][ Rendered =>
        IsChange(last_trend', Shown[1].demand,
                 IF Halved /\ Len(Shown) >= 3 THEN Shown[Len(Shown) - 1].demand
                 ELSE Shown[Len(Shown)].demand)
    ]_vars

C22_Witness ==
  /\ Returned("historical") /\ Len(response.listed) = 3
  /\ response.listed[2].demand = 50000 /\ response.listed[3].demand = 20000
  /\ last_trend = Trend(25, 1)
  /\ conversation_history = <<"historical trend in Mumbai">>

(***************************************************************************)
(* The context update.  UsedCity is the city of the turn: the one the      *)
(* query names, else the one remembered (None when there is neither, which *)
(* only a ranking turn gets past the city check with).                     *)
(***************************************************************************)
SmallTalk == {"greeting", "thank_you", "goodbye", "help"}
UsedCity == IF Named # None THEN Named ELSE last_city
PastCityCheck ==
  /\ ATurn /\ TheIntent \notin SmallTalk
  /\ UsedCity # None \/ TheIntent \in ranking_intents

\* C23: a turn that passes the city check leaves last_city at the city of
\* the turn and last_intent at the intent detect_intent returned, also when
\* its requests fail, the collaborator answers an error, or the rendering
\* raises.
C23_ContextUpdateIsKept ==
  [][ PastCityCheck => last_city' = UsedCity /\ last_intent' = TheIntent ]_vars

C23_Witness ==
  /\ conversation_history = <<"What's the demand in Mumbai?", "historical trend in Mumbai">>
  /\ calls # << >> /\ Failed(calls[1]) /\ Returned("historical_error")
  /\ last_city = "Mumbai" /\ last_intent = "historical"

(***************************************************************************)
(* Ranking queries, by the number of their noun, and the words that ask    *)
(* for the bottom of the ranking.                                          *)
(***************************************************************************)
SingleCity ==
  { "Best city", "top 1 city", "the city with lowest demand", "worst city",
    "Which city has the highest demand?" }
SeveralCities == {"Top 5 cities", "top 10 cities", "Worst cities", "Worst 10 cities"}
AsksBottom(query) ==
  \E word \in {"worst", "lowest", "bottom"} : Contains(Lowered(query), word)
RankedAs(probe, top, bottom) ==
  probe.result[1] = IF AsksBottom(probe.query) THEN bottom ELSE top

\* C24 as stated: a ranking query about one city is classified top_city or
\* bottom_city and one about several cities top_cities or bottom_cities, the
\* bottom variant exactly when the query has worst, lowest or bottom.
C24_NounSelectsVariant ==
  \A k \in 1 .. Len(probes) :
    /\ probes[k].query \in SingleCity => RankedAs(probes[k], "top_city", "bottom_city")
    /\ probes[k].query \in SeveralCities => RankedAs(probes[k], "top_cities", "bottom_cities")

\* C24, what the code does: the single variant is chosen when 1, one or
\* single stands between the superlative and 'cit', or when the query asks
\* for the/which/what city with the highest or lowest demand, whatever the
\* number of the noun: 'Best city' and 'worst city' get the several-cities
\* variant and 'top 10 cities' and 'Worst 10 cities' the single one.  The
\* bottom variant goes with the bottom vocabulary.
C24_CountOrPhrasingSelectsVariant ==
  \A k \in 1 .. Len(probes) :
    probes[k].query \in SingleCity \cup SeveralCities =>
      IF probes[k].query \in
           { "top 1 city", "top 10 cities", "Worst 10 cities",
             "the city with lowest demand", "Which city has the highest demand?" }
      THEN RankedAs(probes[k], "top_city", "bottom_city")
      ELSE RankedAs(probes[k], "top_cities", "bottom_cities")

C24_Witness ==
  /\ Len(probes) = 2
  /\ probes[1].query = "Best city" /\ probes[1].result = <<"top_cities", 95>>
  /\ probes[2].query = "top 10 cities" /\ probes[2].result = <<"top_city", 95>>

(***************************************************************************)
(* The single-locality gap analysis.                                       *)
(***************************************************************************)
DemandExceeds == "Demand exceeds supply (undersupplied)"
SupplyExceeds == "Supply exceeds demand (oversupplied)"

\* C25 as stated: the single-locality response words the market as demand
\* exceeding supply exactly when predicted_gap_ratio is positive and as
\* supply exceeding demand exactly when it is negative.
C25_WordingFollowsSignOfRatio ==
  \A k \in 1 .. Len(probes) :
    /\ probes[k].result.wording = DemandExceeds <=> probes[k].data.predicted_gap_ratio > 0
    /\ probes[k].result.wording = SupplyExceeds <=> probes[k].data.predicted_gap_ratio < 0

\* C25, what the code does: the wording follows the field
\* demand_supply_status and never reads the ratio; a payload without the
\* field, or with any other status, is worded as supply exceeding demand,
\* and so is a ratio of zero.
C25_WordingFollowsStatusField ==
  \A k \in 1 .. Len(probes) :
    /\ probes[k].result.template = "gap_analysis_locality"
    /\ probes[k].result.gap_ratio = probes[k].data.predicted_gap_ratio
    /\ probes[k].result.wording =
         IF /\ "demand_supply_status" \in DOMAIN probes[k].data
            /\ probes[k].data.demand_supply_status = "demand_exceeds_supply"
         THEN DemandExceeds ELSE SupplyExceeds

C25_Witness ==
  /\ Len(probes) = 2
  /\ probes[1].data = predict_gap("Mumbai", "Area 191", 20, FALSE)
  /\ probes[1].data.predicted_gap_ratio = 10 /\ probes[1].result.wording = SupplyExceeds
  /\ probes[2].data = predict_gap("Mumbai", "Area 191", 20, TRUE)
  /\ probes[2].result.wording = DemandExceeds

(***************************************************************************)
(* The low_gap list without a negative gap.                                *)
(***************************************************************************)
LowGapListed ==
  /\ last_intent = "low_gap"
  /\ calls # << >> /\ ~Failed(calls[1]) /\ "locality_data" \in DOMAIN calls[1].reply.body
  /\ NoneNegative(Take(Localities, 5))

\* C26: in a low_gap response without a negative gap among the listed
\* localities, no locality gives the sentence 'No oversupplied areas found'
\* alone, exactly one gives 'Least undersupplied area' and two or more give
\* 'Least undersupplied areas'; the localities listed are the first five.
C26_WordingFollowsNumberListed ==
  LowGapListed =>
    /\ Returned("low_gap") /\ response.areas = Take(Localities, 5)
    /\ response.wording =
         CASE Len(response.areas) = 0 -> "No oversupplied areas found"
           [] Len(response.areas) = 1 ->
                "No oversupplied areas found. Least undersupplied area"
           [] OTHER -> "No oversupplied areas found. Least undersupplied areas"

C26_Witness ==
  /\ LowGapListed /\ Len(response.areas) = 1 /\ last_city = "Delhi"
  /\ response.wording = "No oversupplied areas found. Least undersupplied area"
  /\ response.areas[1].locality = "Bandra"

(***************************************************************************)
(* The city rankings.  A ranking turn asks GET /cities and then one series *)
(* per city of the listing; WithData are the requests for a series that    *)
(* were answered with data, and Daily the averaged daily demand of one.    *)
(***************************************************************************)
RankingTurn ==
  /\ last_intent \in ranking_intents
  /\ calls # << >> /\ calls[1].path = "GET /cities" /\ ~Failed(calls[1])
WithData ==
  { k \in 2 .. Len(calls) :
      /\ ~Failed(calls[k]) /\ "historical_data" \in DOMAIN calls[k].reply.body
      /\ calls[k].reply.body.historical_data # << >> }
RECURSIVE Total(_, _)
Total(series, n) == IF n = 0 THEN 0 ELSE series[n].demand + Total(series, n - 1)
Daily(call) ==
  LET series == call.reply.body.historical_data
  IN  (Total(series, Len(series)) \div Len(series)) \div 30
Wanted == IF last_intent \in {"top_city", "bottom_city"} THEN 1 ELSE 5
Smaller(a, b) == IF a < b THEN a ELSE b

\* C27: a ranking response lists at most count cities (5, or 1 for the
\* single-city variants): each listed city was answered with data, no city
\* is listed twice, its demand is the average of its months over 30 days,
\* the list is in descending (top) or ascending (bottom) order of that
\* demand, no city left out for want of room ranks before a listed one,
\* and cities whose request failed or was answered with no data are left
\* out; the response names the period of the data.  Without any answered
\* city the response says that no city data could be retrieved.
C27_RankedByAveragedDemand ==
  RankingTurn =>
    IF WithData = {} THEN Returned("ranking_no_data")
    ELSE /\ Returned(last_intent)
         /\ response.period = "Apr-Jul 2022"
         /\ Len(response.listed) = Smaller(Wanted, Cardinality(WithData))
         /\ \A i \in 1 .. Len(response.listed) :
              /\ \E k \in WithData : /\ calls[k].city = response.listed[i].city
                                      /\ Daily(calls[k]) = response.listed[i].demand
              /\ \A j \in 1 .. Len(response.listed) :
                   i < j => /\ response.listed[i].city # response.listed[j].city
                            /\ IF last_intent \in {"top_cities", "top_city"}
                               THEN response.listed[i].demand >= response.listed[j].demand
                               ELSE response.listed[i].demand <= response.listed[j].demand
              /\ \A k \in WithData :
                   (\A j \in 1 .. Len(response.listed) : response.listed[j].city # calls[k].city)
                     => IF last_intent \in {"top_cities", "top_city"}
                        THEN response.listed[i].demand >= Daily(calls[k])
                        ELSE response.listed[i].demand <= Daily(calls[k])

C27_Witness ==
  /\ RankingTurn /\ last_intent = "top_city" /\ Cardinality(WithData) = 2
  /\ Len(response.listed) = 1 /\ response.listed[1].city = "Delhi"
  /\ response.listed[1].demand = 2100 /\ response.period = "Apr-Jul 2022"
  /\ calls[2].city = "Mumbai" /\ Daily(calls[2]) = 1050

\* C28: once last_city holds a city no step makes it null again, and a
\* step changes last_city only in a turn of chat, to the city extract_city
\* finds in the query of that turn.
C28_LastCityIsNeverForgotten ==
  [][ /\ last_city # None => last_city' # None
      /\ last_city' # last_city => ATurn /\ Named # None /\ last_city' = Named ]_vars

C28_Witness ==
  /\ conversation_history = <<"What's the demand in Mumbai?", "Top 5 cities">>
  /\ last_intent = "top_cities" /\ last_city = "Mumbai"
  /\ calls # << >> /\ Failed(calls[1])

(***************************************************************************)
(* The reply of POST /chat.  Served200(c) holds of a step in which the     *)
(* service answered client c with status 200; the message is then the      *)
(* query chat logged in that step.                                         *)
(***************************************************************************)
Served200(c) ==
  /\ ATurn /\ sessions'[c].sent = sessions[c].sent + 1 /\ sessions'[c].reply.status = 200
Reported(c) == <<sessions'[c].reply.intent, sessions'[c].reply.confidence>>

\* C29 as stated: the intent and the confidence in the reply of POST /chat
\* are those of the classification chat used for the message, the result
\* of detect_intent in the Dialogue State before the turn.
C29_ReportsClassificationOfTurn ==
  [][ \A c \in Clients :
        Served200(c) => Reported(c) = Detected[TheQuery][has_context(last_city, last_intent)]
    ]_vars

\* C29, what the code does: the handler calls detect_intent a second time
\* after chat returned, and reports the result of that call, made in the
\* Dialogue State the turn left.  The two differ when the turn is the one
\* that sets up the context and the message matches a follow-up pattern.
C29_ReportsClassificationAfterTurn ==
  [][ \A c \in Clients :
        Served200(c) =>
          /\ Reported(c) = Detected[TheQuery][has_context(last_city', last_intent')]
          /\ has_context(last_city, last_intent) = has_context(last_city', last_intent')
               => Reported(c) = Detected[TheQuery][has_context(last_city, last_intent)]
    ]_vars

C29_Witness ==
  \E c \in Clients :
    /\ sessions[c].sent = 1 /\ sessions[c].reply.status = 200
    /\ conversation_history = <<"show me the past in Delhi">>
    /\ sessions[c].reply.response.template = "default" /\ calls = << >>
    /\ sessions[c].reply.intent = "historical" /\ sessions[c].reply.confidence = 90
    /\ last_city = "Delhi" /\ last_intent = "unknown"

\* C30: a step changes last_trend only in a historical turn whose
\* collaborator answered a series of which two or more months are shown,
\* and then to the change over the months shown; every other step, and
\* every historical turn that failed or was answered with fewer than two
\* months, leaves it as it was.
C30_TrendWrittenByHistoricalTurnOnly ==
  [][ last_trend' # last_trend =>
        /\ HistoricalTurn /\ Len(Shown) >= 2 /\ Returns("historical")
        /\ \/ IsChange(last_trend', Shown[1].demand, Shown[Len(Shown)].demand)
           \/ IsChange(last_trend', Shown[1].demand, Shown[Len(Shown) - 1].demand)
    ]_vars

C30_Witness ==
  /\ conversation_history = <<"historical trend in Mumbai", "show me the trend">>
  /\ last_intent = "historical" /\ calls # << >> /\ Failed(calls[1])
  /\ Returned("historical_error")
  /\ last_trend.known /\ last_trend.num = 50 /\ last_trend.den = 1
=============================================================================
